---- MODULE Spec2Model ----
(***************************************************************************)
(* Model of the medicare-pipeline: the gold layer (AnalyticsBuilder in     *)
(* create_analytics.py, driven by run_analytics in main.py), the silver    *)
(* layer steps create_fact_claims, create_fact_claim_diagnoses and         *)
(* create_dim_provider of DataTransformer (transform_data.py), the         *)
(* partition files a table is written to and read from, and convert_file   *)
(* of CSVToParquetConverter (csv_to_parquet.py).                           *)
(*                                                                         *)
(* Conventions.                                                            *)
(*  - A nullable numeric cell is a set: {} is null, {v} is the value v.    *)
(*  - A nullable string cell is a string; NullStr is the null cell, ""     *)
(*    the empty string.  A string that the code takes apart is a sequence  *)
(*    of characters; NullCode is then the null cell, <<>> the empty one.   *)
(*  - A logical table read with _read_complete_table is a record           *)
(*    [present, rows]; present = FALSE is the None ("no data") result.     *)
(*  - A partitioned gold table is a function from the year partition to a  *)
(*    file [exists, rows].                                                 *)
(***************************************************************************)
EXTENDS Integers, Sequences, FiniteSets, TLC

VARIABLES
    dim_beneficiary,        \* silver: sequence of beneficiary rows, or absent
    fact_claims,            \* silver: set of claim rows, or absent
    fact_prescription,      \* silver: set of prescription rows, or absent
    fact_claim_diagnoses,   \* silver: set of diagnosis lines, or absent
    bronze,                 \* bronze: per claim kind, the batches (files) found
    member_year_metrics,    \* gold: year -> file of metrics rows
    top_diagnoses_by_member,\* gold: year -> file of top-diagnosis rows
    patient_api_view,       \* gold: year -> [metrics file, diagnoses file]
    pc,                     \* position of the running stage
    outcome,                \* how each operation ended
    result,                 \* what run_analytics / run_transformation returned
    partitioning,           \* store: the partition columns of the table
    root_found,             \* store: the table root as the first run found it
    table_root,             \* store: the table root and the files beneath it
    combined,               \* store: the frame the latest run wrote
    read_result,            \* store: what _read_complete_table returned
    run_no,                 \* which run of the writing step came last
    provider_src,           \* bronze: the (provider, state) cells of the batches
    dim_provider,           \* silver: the provider dimension, or absent
    dim_provider_first,     \* silver: dim_provider as the first run wrote it
    csv_file,               \* raw: the CSV file given to convert_file
    bronze_batch,           \* bronze: the batch convert_file wrote
    csv_columns,            \* raw: the header of the CSV file
    bronze_columns,         \* bronze: the columns of the batch written
    bene_bronze,            \* bronze: the beneficiary batch the transformer finds
    request,                \* api: the latest GET /patient/{bene_id}?year=
    response,               \* api: what the server answered to it
    response_first,         \* api: what it answered when first asked
    serve_no,               \* api: how often the request has been answered
    pde_batch,              \* bronze: the prescription batch the transformer finds
    rx_outcome,             \* how create_fact_prescription ended
    steps,                  \* pipeline: the steps list given to run_pipeline
    stage,                  \* pipeline: the block run_pipeline has reached
    stage_log,              \* pipeline: the stages called so far, and what they returned
    all_success,            \* pipeline: the local all_success
    pipeline_result         \* pipeline: what run_pipeline returned

pipevars == <<dim_beneficiary, fact_claims, fact_prescription,
              fact_claim_diagnoses, bronze, member_year_metrics,
              top_diagnoses_by_member, patient_api_view, pc, outcome, result>>

storevars == <<partitioning, root_found, table_root, combined, read_result,
               run_no>>

dimvars == <<provider_src, dim_provider, dim_provider_first>>

convvars == <<csv_file, bronze_batch, csv_columns, bronze_columns>>

benevars == <<bene_bronze>>

apivars == <<request, response, response_first, serve_no>>

rxvars == <<pde_batch, rx_outcome>>

runvars == <<steps, stage, stage_log, all_success, pipeline_result>>

latevars == <<benevars, apivars, rxvars, runvars>>

vars == <<pipevars, storevars, dimvars, convvars, latevars>>

----------------------------------------------------------------------------
(* Bounds of the model *)

MaxClaims == 4      \* rows of a varied fact_claims table
MaxRx == 2          \* rows of a varied fact_prescription table
MaxBene == 2        \* rows of dim_beneficiary
MaxCodes == 6       \* diagnosis codes with a line in the main patient-year
MaxPay == 5         \* largest payment of a diagnosis line

MaxSlot == 2        \* highest diagnosis slot column a varied batch may have
MaxFrame == 2       \* rows of a frame written to a partitioned table
MaxObs == 3         \* rows with a provider cell among the bronze batches
MaxSpans == 3       \* spans of equal rows in a CSV file
MaxParts == 2       \* parts of a file name that are looked at
MaxSteps == 3       \* entries of a varied steps list

(* Program constants *)

K == 5              \* rank cutoff of create_top_diagnoses
LastSlot == 19      \* last slot number create_fact_claim_diagnoses looks for
SampleRows == 1000  \* n_rows of the read_csv of _extract_year

----------------------------------------------------------------------------
(* Cells and tables *)

Null == {}
Some(v) == {v}
NullStr == "<null>"

Absent == [present |-> FALSE, rows |-> {}]
Table(rs) == [present |-> TRUE, rows |-> rs]
AbsentSeq == [present |-> FALSE, rows |-> <<>>]
TableSeq(rs) == [present |-> TRUE, rows |-> rs]

Years == {2008, 2009}
ClaimTypes == {"inpatient", "outpatient", "carrier"}

NoFile == [exists |-> FALSE, rows |-> {}]
NoFileSeq == [exists |-> FALSE, rows |-> <<>>]

RECURSIVE SumCells(_)
(* pl.sum over a column: null cells are skipped, an empty or all-null     *)
(* column sums to 0.  The argument is a set of [id, cell] pairs so that   *)
(* equal cells of different rows are all counted.                         *)
SumCells(cells) ==
    IF cells = {} THEN 0
    ELSE LET c == CHOOSE x \in cells : TRUE
         IN (IF c.cell = Null THEN 0 ELSE (CHOOSE v \in c.cell : TRUE))
            + SumCells(cells \ {c})

(* Rows of a sequence (a polars frame keeps row order) that satisfy year = y *)
RowsOfYear(rows, y) == SelectSeq(rows, LAMBDA r : r.year = y)

SeqRange(s) == {s[i] : i \in 1..Len(s)}

----------------------------------------------------------------------------
(* PartitionedStore: gold tables partitioned by year                       *)

(* _get_gold_files: the partition files found beneath the table root *)
GoldFiles(tbl) == {y \in Years : tbl[y].exists}

(* Writing a frame of rows (a sequence) partitioned by year: only the     *)
(* partitions of the years that occur in the frame are (over)written.     *)
WriteByYearSeq(tbl, rows) ==
    [y \in Years |->
        IF \E i \in 1..Len(rows) : rows[i].year = y
        THEN [exists |-> TRUE, rows |-> RowsOfYear(rows, y)]
        ELSE tbl[y]]

WriteByYear(tbl, rows) ==
    [y \in Years |->
        IF \E r \in rows : r.year = y
        THEN [exists |-> TRUE, rows |-> {r \in rows : r.year = y}]
        ELSE tbl[y]]

(* _read_complete_table(from_gold=True) for a table stored as sets of rows *)
ReadGold(tbl) ==
    IF GoldFiles(tbl) = {} THEN Absent
    ELSE Table(UNION {tbl[y].rows : y \in GoldFiles(tbl)})

(* All rows a gold table stored as sequences holds, as a set *)
GoldRowSet(tbl) == UNION {SeqRange(tbl[y].rows) : y \in GoldFiles(tbl)}

----------------------------------------------------------------------------
(* PartitionedStore: the partition files beneath the root of one table,    *)
(* written by the partition_by loops of the transform and analytics steps  *)
(* and read by _read_complete_table.                                       *)
(*                                                                         *)
(* The root is a record [exists, files]; files maps every partition        *)
(* directory to the file in it.  A frame is a sequence of rows.            *)

Prefixes == {"10", "2A"}

(* The partition directory of a row: year=<y>/bene_id_prefix=<p> for the   *)
(* silver fact tables, year=<y> for the gold tables.                       *)
PartitionKey(r, cols) ==
    IF cols = "year" THEN <<r.year>> ELSE <<r.year, r.bene_id_prefix>>

PartitionKeys(cols) ==
    IF cols = "year" THEN {<<y>> : y \in Years}
    ELSE {<<y, p>> : y \in Years, p \in Prefixes}

NoPartition == [exists |-> FALSE, readable |-> FALSE, rows |-> <<>>]
PartitionFile(rows) == [exists |-> TRUE, readable |-> TRUE, rows |-> rows]

(* A file that pl.read_parquet cannot read *)
Unreadable == [exists |-> TRUE, readable |-> FALSE, rows |-> <<>>]

MissingRoot(cols) ==
    [exists |-> FALSE, files |-> [k \in PartitionKeys(cols) |-> NoPartition]]

EmptyRoot(cols) ==
    [exists |-> TRUE, files |-> [k \in PartitionKeys(cols) |-> NoPartition]]

(* The rows of a sequence without the repetitions of a row *)
Distinct(rows) ==
    LET keep == {i \in 1..Len(rows) : \A j \in 1..(i - 1) : rows[j] # rows[i]}
    IN [n \in 1..Cardinality(keep) |->
           rows[CHOOSE i \in keep : Cardinality({j \in keep : j < i}) = n - 1]]

(* Variant: a partition keeps one copy of each row *)
PartitionDistinctRows(frame, cols, k) ==
    Distinct(SelectSeq(frame, LAMBDA r : PartitionKey(r, cols) = k))

(* frame.partition_by(...): the rows of one partition, in frame order *)
PartitionRows(frame, cols, k) ==
    SelectSeq(frame, LAMBDA r : PartitionKey(r, cols) = k)

(* The write loop: mkdir(parents=True, exist_ok=True) and write_parquet    *)
(* for every partition that has a row in the frame; write_parquet replaces *)
(* the file at its path, and no other path is touched.                     *)
WritePartitions(root, frame, cols) ==
    [exists |-> TRUE,
     files |-> [k \in PartitionKeys(cols) |->
                  IF PartitionRows(frame, cols, k) # <<>>
                  THEN PartitionFile(PartitionRows(frame, cols, k))
                  ELSE root.files[k]]]

(* glob(<root>/<table>/**/*.parquet): nothing beneath a missing root *)
Discovered(root) == {k \in DOMAIN root.files : root.files[k].exists}

Unread == [status |-> "unread", rows |-> <<>>]
NoData == [status |-> "none", rows |-> <<>>]
Frame(rows) == [status |-> "frame", rows |-> rows]

RECURSIVE ConcatFiles(_, _)
(* pl.concat(dfs); glob fixes no order of the files *)
ConcatFiles(root, keys) ==
    IF keys = {} THEN <<>>
    ELSE LET k == CHOOSE x \in keys : TRUE
         IN root.files[k].rows \o ConcatFiles(root, keys \ {k})

(* _read_complete_table: None without files; a file whose read raises is   *)
(* logged and skipped; None when no file could be read.                    *)
ReadCompleteTable(root) ==
    IF Discovered(root) = {} THEN NoData
    ELSE LET dfs == {k \in Discovered(root) : root.files[k].readable}
         IN IF dfs = {} THEN NoData ELSE Frame(ConcatFiles(root, dfs))

----------------------------------------------------------------------------
(* MetricsAggregator: AnalyticsBuilder.create_member_year_metrics          *)

SameKey(r, b, y) == r.bene_id = b /\ r.year = y

(* Variant: the group key without the year *)
ClaimCountNoYear(claims, b, y, t) ==
    Cardinality({r.claim_id : r \in {x \in claims : x.bene_id = b /\ x.claim_type = t}})

(* claims_df.group_by([bene_id, year, claim_type]).agg(n_unique(claim_id)) *)
ClaimCount(claims, b, y, t) ==
    Cardinality({r.claim_id : r \in {x \in claims : SameKey(x, b, y) /\ x.claim_type = t}})

(* The columns the pivot on claim_type creates: one per claim_type value   *)
(* that occurs in the table.                                               *)
PivotColumns(claims) == {r.claim_type : r \in claims}

(* pl.col("inpatient"/"outpatient"/"carrier") on the pivoted frame raises  *)
(* ColumnNotFoundError unless the pivot created all three columns.         *)
MetricsRaises(claims, rx) ==
    claims.present /\ ~(ClaimTypes \subseteq PivotColumns(claims.rows))

(* filter(provider_id.is_not_null() & (provider_id != "")) *)
HasProvider(r) == r.provider_id # NullStr /\ r.provider_id # ""

(* .filter(...).group_by([bene_id, year]).agg(n_unique(provider_id)) *)
ProviderCount(rows, b, y) ==
    Cardinality({r.provider_id : r \in {x \in rows : HasProvider(x) /\ SameKey(x, b, y)}})

(* Variant: the two sources counted separately and added *)
AllProviderCountSeparately(claims, rx, b, y) ==
    ProviderCount(rx, b, y) + ProviderCount(claims, b, y)

(* n_unique(provider_id) over pl.concat([rx_providers, claim_providers]) *)
AllProviderCount(claims, rx, b, y) ==
    Cardinality({r.provider_id :
        r \in {x \in rx : HasProvider(x) /\ SameKey(x, b, y)}
              \cup {x \in claims : HasProvider(x) /\ SameKey(x, b, y)}})

(* The unique_providers column at the end of the function *)
UniqueProviders(claims, rx, b, y) ==
    IF claims.present
    THEN IF rx.present
         THEN AllProviderCount(claims.rows, rx.rows, b, y)
         ELSE ProviderCount(claims.rows, b, y)
    ELSE 0

(* Variant: the group key without the year *)
RxFillsAllYears(rx, b, y) ==
    IF rx.present
    THEN Cardinality({r.prescription_id : r \in {x \in rx.rows : x.bene_id = b}})
    ELSE 0

(* prescription_df.group_by([bene_id, year]).agg(n_unique(prescription_id)), *)
(* left-joined and null-filled with 0; the literal 0 without the table.     *)
RxFills(rx, b, y) ==
    IF rx.present
    THEN Cardinality({r.prescription_id : r \in {x \in rx.rows : SameKey(x, b, y)}})
    ELSE 0

(* The count column of one claim type after the left join and fill_null(0), *)
(* or the literal 0 of the else branch.                                     *)
TypeCount(claims, b, y, t) ==
    IF claims.present THEN ClaimCount(claims.rows, b, y, t) ELSE 0

(* One output row per beneficiary row (left joins on unique right keys) *)
MetricsRow(brow, claims, rx) ==
    [bene_id           |-> brow.bene_id,
     year              |-> brow.year,
     total_allowed     |-> brow.total_allowed,
     total_paid        |-> brow.total_paid,
     inpatient_stays   |-> TypeCount(claims, brow.bene_id, brow.year, "inpatient"),
     outpatient_visits |-> TypeCount(claims, brow.bene_id, brow.year, "outpatient"),
     carrier_claims    |-> TypeCount(claims, brow.bene_id, brow.year, "carrier"),
     unique_providers  |-> UniqueProviders(claims, rx, brow.bene_id, brow.year),
     rx_fills          |-> RxFills(rx, brow.bene_id, brow.year)]

MetricsFrame(bene, claims, rx) ==
    [i \in 1..Len(bene) |-> MetricsRow(bene[i], claims, rx)]

create_member_year_metrics ==
    /\ pc = "metrics"
    /\ IF ~dim_beneficiary.present
       THEN \* beneficiary_df is None: plain return, nothing written
            /\ outcome' = [outcome EXCEPT !.metrics = "returned"]
            /\ pc' = "top"
            /\ UNCHANGED <<member_year_metrics, result>>
       ELSE IF MetricsRaises(fact_claims, fact_prescription)
       THEN \* the exception leaves create_all_analytics; run_analytics
            \* catches it and returns False
            /\ outcome' = [outcome EXCEPT !.metrics = "raised"]
            /\ pc' = "done"
            /\ result' = "False"
            /\ UNCHANGED member_year_metrics
       ELSE /\ member_year_metrics' =
                  WriteByYearSeq(member_year_metrics,
                      MetricsFrame(dim_beneficiary.rows, fact_claims, fact_prescription))
            /\ outcome' = [outcome EXCEPT !.metrics = "written"]
            /\ pc' = "top"
            /\ UNCHANGED result
    /\ UNCHANGED <<dim_beneficiary, fact_claims, fact_prescription,
                   fact_claim_diagnoses, bronze, top_diagnoses_by_member,
                   patient_api_view>>
    /\ UNCHANGED <<storevars, dimvars, convvars, latevars>>

----------------------------------------------------------------------------
(* TopKDiagnosisRanker: AnalyticsBuilder.create_top_diagnoses              *)

(* The groups of group_by([bene_id, year, diagnosis_code,                  *)
(* diagnosis_description])                                                 *)
DiagnosisGroups(diag) ==
    {[bene_id |-> r.bene_id, year |-> r.year,
      diagnosis_code |-> r.diagnosis_code,
      diagnosis_description |-> r.diagnosis_description] : r \in diag}

InGroup(r, g) ==
    /\ r.bene_id = g.bene_id
    /\ r.year = g.year
    /\ r.diagnosis_code = g.diagnosis_code
    /\ r.diagnosis_description = g.diagnosis_description

(* .agg(pl.sum("payment")): one term per diagnosis line of the group *)
DiagnosisPayment(diag, g) ==
    SumCells({[id |-> r, cell |-> r.payment] : r \in {x \in diag : InGroup(x, g)}})

DiagnosisSpend(diag) ==
    {[bene_id |-> g.bene_id, year |-> g.year,
      diagnosis_code |-> g.diagnosis_code,
      diagnosis_description |-> g.diagnosis_description,
      diagnosis_payment |-> DiagnosisPayment(diag, g)] : g \in DiagnosisGroups(diag)}

(* Variant: rank(method="min"): tied rows consume rank numbers *)
OrdinalRank(spend, s) ==
    Cardinality({x \in spend : SameKey(x, s.bene_id, s.year)
                               /\ x.diagnosis_payment > s.diagnosis_payment}) + 1

(* rank(method="dense", descending=True).over([bene_id, year]) *)
DenseRank(spend, s) ==
    Cardinality({x.diagnosis_payment :
        x \in {z \in spend : SameKey(z, s.bene_id, s.year)
                             /\ z.diagnosis_payment > s.diagnosis_payment}}) + 1

Ranked(spend) ==
    {[bene_id |-> s.bene_id, year |-> s.year,
      diagnosis_code |-> s.diagnosis_code,
      diagnosis_description |-> s.diagnosis_description,
      diagnosis_payment |-> s.diagnosis_payment,
      diagnosis_rank |-> DenseRank(spend, s)] : s \in spend}

(* filter(pl.col("diagnosis_rank") <= 5) *)
TopDiagnoses(diag) == {r \in Ranked(DiagnosisSpend(diag)) : r.diagnosis_rank <= K}

create_top_diagnoses ==
    /\ pc = "top"
    /\ IF ~fact_claim_diagnoses.present
       THEN \* diagnosis_df is None: plain return
            /\ outcome' = [outcome EXCEPT !.top = "returned"]
            /\ UNCHANGED top_diagnoses_by_member
       ELSE /\ top_diagnoses_by_member' =
                  WriteByYear(top_diagnoses_by_member,
                              TopDiagnoses(fact_claim_diagnoses.rows))
            /\ outcome' = [outcome EXCEPT !.top = "written"]
    /\ pc' = "api"
    /\ UNCHANGED <<dim_beneficiary, fact_claims, fact_prescription,
                   fact_claim_diagnoses, bronze, member_year_metrics,
                   patient_api_view, result>>
    /\ UNCHANGED <<storevars, dimvars, convvars, latevars>>

----------------------------------------------------------------------------
(* AnalyticsBuilder.create_patient_api_view                                *)

(* metrics_df.select([...]): the columns kept in patient_metrics *)
MetricsSlim(r) ==
    [bene_id |-> r.bene_id, year |-> r.year,
     total_allowed |-> r.total_allowed, total_paid |-> r.total_paid,
     inpatient_stays |-> r.inpatient_stays,
     outpatient_visits |-> r.outpatient_visits,
     rx_fills |-> r.rx_fills, unique_providers |-> r.unique_providers]

(* The two files written beneath patient_api_view/year=<y> *)
WriteApiView(view, metrics, diagnoses) ==
    [y \in Years |->
        [patient_metrics |->
            IF \E r \in metrics : r.year = y
            THEN [exists |-> TRUE,
                  rows |-> {MetricsSlim(r) : r \in {x \in metrics : x.year = y}}]
            ELSE view[y].patient_metrics,
         patient_diagnoses |->
            IF \E r \in diagnoses : r.year = y
            THEN [exists |-> TRUE, rows |-> {r \in diagnoses : r.year = y}]
            ELSE view[y].patient_diagnoses]]

(* "if not metrics_files or not diagnoses_files": log an error and return *)
ApiViewInputsPresent(metrics, diagnoses) ==
    GoldFiles(metrics) # {} /\ GoldFiles(diagnoses) # {}

(* The last step of create_all_analytics: when it returns, run_analytics   *)
(* returns True.                                                           *)
create_patient_api_view ==
    /\ pc = "api"
    /\ IF ~ApiViewInputsPresent(member_year_metrics, top_diagnoses_by_member)
       THEN /\ outcome' = [outcome EXCEPT !.api = "returned"]
            /\ UNCHANGED patient_api_view
       ELSE /\ patient_api_view' =
                  WriteApiView(patient_api_view,
                               GoldRowSet(member_year_metrics),
                               ReadGold(top_diagnoses_by_member).rows)
            /\ outcome' = [outcome EXCEPT !.api = "written"]
    /\ pc' = "done"
    /\ result' = "True"
    /\ UNCHANGED <<dim_beneficiary, fact_claims, fact_prescription,
                   fact_claim_diagnoses, bronze, member_year_metrics,
                   top_diagnoses_by_member>>
    /\ UNCHANGED <<storevars, dimvars, convvars, latevars>>

----------------------------------------------------------------------------
(* ClaimUnifier: DataTransformer.create_fact_claims                        *)
(*                                                                         *)
(* A bronze batch (one parquet file) is modelled by its single claim row:  *)
(* the structural columns, and the cells of the provider and amount        *)
(* columns the file has (the domains of providers and amounts).            *)

LINE_PMT_COLS ==
    <<"LINE_NCH_PMT_AMT_1", "LINE_NCH_PMT_AMT_2", "LINE_NCH_PMT_AMT_3",
      "LINE_NCH_PMT_AMT_4", "LINE_NCH_PMT_AMT_5", "LINE_NCH_PMT_AMT_6",
      "LINE_NCH_PMT_AMT_7", "LINE_NCH_PMT_AMT_8", "LINE_NCH_PMT_AMT_9",
      "LINE_NCH_PMT_AMT_10", "LINE_NCH_PMT_AMT_11", "LINE_NCH_PMT_AMT_12",
      "LINE_NCH_PMT_AMT_13">>

LINE_PRVDR_PMT_COLS ==
    <<"LINE_BENE_PRMRY_PYR_PD_AMT_1", "LINE_BENE_PRMRY_PYR_PD_AMT_2",
      "LINE_BENE_PRMRY_PYR_PD_AMT_3", "LINE_BENE_PRMRY_PYR_PD_AMT_4",
      "LINE_BENE_PRMRY_PYR_PD_AMT_5", "LINE_BENE_PRMRY_PYR_PD_AMT_6",
      "LINE_BENE_PRMRY_PYR_PD_AMT_7", "LINE_BENE_PRMRY_PYR_PD_AMT_8",
      "LINE_BENE_PRMRY_PYR_PD_AMT_9", "LINE_BENE_PRMRY_PYR_PD_AMT_10",
      "LINE_BENE_PRMRY_PYR_PD_AMT_11", "LINE_BENE_PRMRY_PYR_PD_AMT_12",
      "LINE_BENE_PRMRY_PYR_PD_AMT_13">>

(* df.columns *)
Columns(f) == DOMAIN f.providers \cup DOMAIN f.amounts

CellValue(c) == CHOOSE v \in c : TRUE

(* The + of two polars expressions: null if either operand is null *)
AddCells(a, b) ==
    IF a = Null \/ b = Null THEN Null ELSE Some(CellValue(a) + CellValue(b))

RECURSIVE LineExpr(_, _, _)
(* The expression the loop "for col in <line columns>" has built after the *)
(* first n columns: none yet, or the sum of the columns of the file.       *)
LineExpr(f, cols, n) ==
    IF n = 0 THEN [found |-> FALSE, cell |-> Null]
    ELSE LET prev == LineExpr(f, cols, n - 1) IN
         IF cols[n] \in Columns(f)
         THEN [found |-> TRUE,
               cell |-> IF prev.found THEN AddCells(prev.cell, f.amounts[cols[n]])
                        ELSE f.amounts[cols[n]]]
         ELSE prev

(* payment_col / third_party_col of a carrier file: the aggregate column,  *)
(* else the sum of the line columns, else the literal 0.                   *)
CarrierAmount(f, aggregate, lines) ==
    IF aggregate \in Columns(f) THEN f.amounts[aggregate]
    ELSE LET e == LineExpr(f, lines, Len(lines)) IN
         IF e.found THEN e.cell ELSE Some(0)

(* provider_col of a carrier file *)
CarrierProvider(f) ==
    IF "PRVDR_NUM" \in Columns(f) THEN f.providers["PRVDR_NUM"]
    ELSE IF "PRVDR_NPI" \in Columns(f) THEN f.providers["PRVDR_NPI"]
    ELSE "Unknown"

(* The columns the select of an inpatient or outpatient file names; a      *)
(* select of a column the file lacks raises ColumnNotFoundError.           *)
FacilityColumns == {"PRVDR_NUM", "CLM_PMT_AMT", "NCH_PRMRY_PYR_CLM_PD_AMT"}

FacilitySelectRaises(f) == ~(FacilityColumns \subseteq Columns(f))

(* Variant: the third-party amount left out of the total *)
WithTotalOfProgramOnly(r) ==
    [bene_id |-> r.bene_id, year |-> r.year, claim_type |-> r.claim_type,
     claim_id |-> r.claim_id, provider_id |-> r.provider_id,
     medicare_payment |-> r.medicare_payment,
     third_party_payment |-> r.third_party_payment,
     patient_payment |-> r.patient_payment,
     total_payment |-> AddCells(r.medicare_payment, r.patient_payment)]

(* total_payment = medicare_payment + third_party_payment + patient_payment *)
WithTotal(r) ==
    [bene_id |-> r.bene_id, year |-> r.year, claim_type |-> r.claim_type,
     claim_id |-> r.claim_id, provider_id |-> r.provider_id,
     medicare_payment |-> r.medicare_payment,
     third_party_payment |-> r.third_party_payment,
     patient_payment |-> r.patient_payment,
     total_payment |->
        AddCells(AddCells(r.medicare_payment, r.third_party_payment),
                 r.patient_payment)]

FacilityClaim(f, kind) ==
    [bene_id |-> f.DESYNPUF_ID, year |-> f.year, claim_type |-> kind,
     claim_id |-> f.CLM_ID, provider_id |-> f.providers["PRVDR_NUM"],
     medicare_payment |-> f.amounts["CLM_PMT_AMT"],
     third_party_payment |-> f.amounts["NCH_PRMRY_PYR_CLM_PD_AMT"],
     patient_payment |-> Some(0)]

CarrierClaim(f) ==
    [bene_id |-> f.DESYNPUF_ID, year |-> f.year, claim_type |-> "carrier",
     claim_id |-> f.CLM_ID, provider_id |-> CarrierProvider(f),
     medicare_payment |-> CarrierAmount(f, "CLM_PMT_AMT", LINE_PMT_COLS),
     third_party_payment |->
        CarrierAmount(f, "CLM_OP_PRVDR_PMT_AMT", LINE_PRVDR_PMT_COLS),
     patient_payment |-> Some(0)]

FacilityKinds == {"inpatient", "outpatient"}

(* combined_claims: the rows of every file of every kind *)
CombinedClaims(b) ==
    UNION {{WithTotal(FacilityClaim(b[k][i], k)) : i \in 1..Len(b[k])} :
              k \in FacilityKinds}
    \cup {WithTotal(CarrierClaim(b["carrier"][i])) : i \in 1..Len(b["carrier"])}

create_fact_claims ==
    /\ pc = "claims"
    /\ IF \E k \in FacilityKinds : \E i \in 1..Len(bronze[k]) :
             FacilitySelectRaises(bronze[k][i])
       THEN \* the exception leaves create_fact_claims before anything is
            \* written and leaves transform_all; run_transformation catches
            \* it and returns False
            /\ outcome' = [outcome EXCEPT !.claims = "raised"]
            /\ pc' = "done"
            /\ result' = "False"
            /\ UNCHANGED fact_claims
       ELSE IF \A k \in ClaimTypes : Len(bronze[k]) = 0
       THEN \* claim_dfs is empty: an error is logged, nothing is written,
            \* the function returns and transform_all goes on
            /\ outcome' = [outcome EXCEPT !.claims = "nodata"]
            /\ pc' = "diagnoses"
            /\ UNCHANGED <<fact_claims, result>>
       ELSE /\ fact_claims' = Table(CombinedClaims(bronze))
            /\ outcome' = [outcome EXCEPT !.claims = "written"]
            /\ pc' = "diagnoses"
            /\ UNCHANGED result
    /\ UNCHANGED <<dim_beneficiary, fact_prescription, fact_claim_diagnoses,
                   bronze, member_year_metrics, top_diagnoses_by_member,
                   patient_api_view>>
    /\ UNCHANGED <<storevars, dimvars, convvars, latevars>>

----------------------------------------------------------------------------
(* Diagnosis codes and DataTransformer._get_icd9_description               *)
(* A code is the sequence of its characters.                               *)

icd9_mappings(prefix) ==
    CASE prefix = <<"2", "5", "0">> -> "Diabetes mellitus"
      [] prefix = <<"4", "0", "1">> -> "Essential hypertension"
      [] prefix = <<"2", "7", "2">> -> "Disorders of lipoid metabolism"
      [] prefix = <<"4", "1", "4">> -> "Other forms of chronic ischemic heart disease"
      [] prefix = <<"4", "2", "7">> -> "Cardiac dysrhythmias"
      [] prefix = <<"4", "2", "8">> -> "Heart failure"
      [] prefix = <<"4", "9", "6">> -> "Chronic airway obstruction"
      [] prefix = <<"3", "1", "1">> -> "Depressive disorder"
      [] prefix = <<"7", "1", "5">> -> "Osteoarthrosis"
      [] prefix = <<"7", "2", "4">> -> "Other and unspecified disorders of back"
      [] OTHER -> "unmapped"

Blank(code) == \A i \in 1..Len(code) : code[i] = " "

get_icd9_description(code) ==
    IF Blank(code) THEN "Unknown"
    ELSE IF Len(code) >= 3 /\ icd9_mappings(SubSeq(code, 1, 3)) # "unmapped"
         THEN icd9_mappings(SubSeq(code, 1, 3))
         ELSE "Other diagnosis"

----------------------------------------------------------------------------
(* DataTransformer.create_fact_claim_diagnoses                             *)
(*                                                                         *)
(* The diagnosis column f"{prefix}{i}" of a batch is the pair              *)
(* <<prefix, i>>; the codes field of a batch maps the diagnosis columns it *)
(* has to their cells.  NullCode is the null cell, <<>> the empty string.  *)

NullCode == <<NullStr>>

DiagPrefixes == <<"ICD9_DGNS_CD_", "DGNS_CD_">>

(* The column names in the order the two nested loops try them:            *)
(* for i in range(1, 20): for prefix in [...]                              *)
DiagCandidates ==
    [n \in 1..(2 * LastSlot) |->
        <<DiagPrefixes[((n - 1) % 2) + 1], ((n - 1) \div 2) + 1>>]

(* diag_cols: the candidates the batch has, in that order *)
DiagCols(f) == SelectSeq(DiagCandidates, LAMBDA c : c \in DOMAIN f.codes)

(* base_cols: DESYNPUF_ID, CLM_ID, year and bene_id_prefix are columns of  *)
(* every batch; CLM_PMT_AMT may be missing, and then the batch is skipped. *)
MissingBaseCols(f) == {"CLM_PMT_AMT"} \ Columns(f)

(* The batches that get past the two "continue" statements *)
DiagnosisBatch(f) == DiagCols(f) # <<>> /\ MissingBaseCols(f) = {}

(* filter(diagnosis_code.is_not_null() & (diagnosis_code != "")) *)
Populated(code) == code # NullCode /\ code # <<>>

(* pl.lit(i + 1) for i, diag_col in enumerate(diag_cols) *)
DiagnosisPosition(f, n) == n

(* pos_df of the n-th diagnosis column of a batch, after the filter *)
PositionRows(f, kind, n) ==
    LET code == f.codes[DiagCols(f)[n]] IN
    IF Populated(code)
    THEN {[bene_id |-> f.DESYNPUF_ID, year |-> f.year, claim_id |-> f.CLM_ID,
           diagnosis_code |-> code,
           diagnosis_position |-> DiagnosisPosition(f, n),
           payment |-> f.amounts["CLM_PMT_AMT"],
           claim_type |-> kind,
           diagnosis_description |-> get_icd9_description(code)]}
    ELSE {}

BatchDiagnoses(f, kind) ==
    IF DiagnosisBatch(f)
    THEN UNION {PositionRows(f, kind, n) : n \in 1..Len(DiagCols(f))}
    ELSE {}

(* combined_diagnoses: the rows of every batch of every kind *)
CombinedDiagnoses(b) ==
    UNION {UNION {BatchDiagnoses(b[k][i], k) : i \in 1..Len(b[k])} :
              k \in ClaimTypes}

(* "if not diagnosis_dfs": no batch got past the two checks *)
NoDiagnosisFrames(b) ==
    \A k \in ClaimTypes : \A i \in 1..Len(b[k]) : ~DiagnosisBatch(b[k][i])

(* The step after create_fact_claims in transform_all.  A frame without    *)
(* rows has no partition, so that nothing is written for it.               *)
create_fact_claim_diagnoses ==
    /\ pc = "diagnoses"
    /\ IF NoDiagnosisFrames(bronze)
       THEN \* ValueError("No data found for fact_claim_diagnoses") leaves
            \* transform_all; run_transformation returns False
            /\ outcome' = [outcome EXCEPT !.diagnoses = "raised"]
            /\ result' = "False"
            /\ UNCHANGED fact_claim_diagnoses
       ELSE /\ fact_claim_diagnoses' =
                  IF CombinedDiagnoses(bronze) = {} THEN fact_claim_diagnoses
                  ELSE Table(CombinedDiagnoses(bronze))
            /\ outcome' = [outcome EXCEPT !.diagnoses = "written"]
            /\ UNCHANGED result
    /\ pc' = "done"
    /\ UNCHANGED <<dim_beneficiary, fact_claims, fact_prescription, bronze,
                   member_year_metrics, top_diagnoses_by_member,
                   patient_api_view>>
    /\ UNCHANGED <<storevars, dimvars, convvars, latevars>>

----------------------------------------------------------------------------
(* DataTransformer.create_dim_provider                                     *)
(*                                                                         *)
(* provider_src holds, for every row of every batch that has a provider    *)
(* column, the provider cell and the state cell (null without a state      *)
(* column, as for prescription batches); <<>> when no batch has a provider *)
(* column.  The batches of bronze and pde_batch are given by their         *)
(* columns; their provider cells are extracted column by column.           *)

(* A prescription batch is given by the cells of its only row: a function  *)
(* from the columns the batch has to their cells.                          *)
NoPde == [present |-> FALSE, cells |-> <<>>]

PdeBatch(cells) == [present |-> TRUE, cells |-> cells]

potential_provider_cols ==
    <<"PRVDR_NUM", "AT_PHYSN_NPI", "OP_PHYSN_NPI", "OT_PHYSN_NPI", "PRVDR_NPI">>

(* "for provider_col in provider_cols": one frame per provider column the  *)
(* claim batch has; these batches have no state column.                    *)
BatchProviderFrames(f) ==
    LET cols == SelectSeq(potential_provider_cols,
                          LAMBDA c : c \in DOMAIN f.providers)
    IN [i \in 1..Len(cols) |->
           [provider_id |-> f.providers[cols[i]], state |-> NullStr]]

RECURSIVE KindProviderFrames(_)
KindProviderFrames(files) ==
    IF files = <<>> THEN <<>>
    ELSE BatchProviderFrames(Head(files)) \o KindProviderFrames(Tail(files))

ClaimProviderFrames(b) ==
    KindProviderFrames(b.inpatient) \o KindProviderFrames(b.outpatient)
        \o KindProviderFrames(b.carrier)

(* pde_provider_col: PRVDR_ID, else PRSCRBR_ID, else none *)
PdeProviderFrames(batch) ==
    IF ~batch.present THEN <<>>
    ELSE IF "PRVDR_ID" \in DOMAIN batch.cells
    THEN <<[provider_id |-> batch.cells["PRVDR_ID"], state |-> NullStr]>>
    ELSE IF "PRSCRBR_ID" \in DOMAIN batch.cells
    THEN <<[provider_id |-> batch.cells["PRSCRBR_ID"], state |-> NullStr]>>
    ELSE <<>>

(* provider_dfs: the frames of the claim batches, then of the prescription *)
(* batches                                                                 *)
ProviderFrames ==
    provider_src \o ClaimProviderFrames(bronze) \o PdeProviderFrames(pde_batch)

(* fill_null("Unknown"), or the literal "Unknown" without a state column *)
StateOf(o) == IF o.state = NullStr THEN "Unknown" ELSE o.state

(* pl.concat(provider_dfs), each filtered to the non-empty provider ids *)
CombinedProviders(src) == SelectSeq(src, LAMBDA o : HasProvider(o))

ProviderGroups(src) ==
    {CombinedProviders(src)[i].provider_id : i \in 1..Len(CombinedProviders(src))}

StateCount(src, p, st) ==
    LET cp == CombinedProviders(src)
    IN Cardinality({i \in 1..Len(cp) : cp[i].provider_id = p /\ StateOf(cp[i]) = st})

StatesOfProvider(src, p) ==
    LET cp == CombinedProviders(src)
    IN {StateOf(cp[i]) : i \in {j \in 1..Len(cp) : cp[j].provider_id = p}}

(* pl.col("state").mode(): every most frequent state of the group; polars  *)
(* fixes no order among them.                                              *)
StateModes(src, p) ==
    {st \in StatesOfProvider(src, p) :
        \A other \in StatesOfProvider(src, p) :
            StateCount(src, p, st) >= StateCount(src, p, other)}

DimProviderRow(p, st) ==
    [provider_id |-> p, state |-> st, provider_type |-> "Unknown"]

(* One execution of create_dim_provider.  write_parquet replaces           *)
(* dim_provider.parquet as a whole, so that an execution over an emptied   *)
(* output root and one over the output of the execution before leave the   *)
(* same file.  mode().first() takes whichever of the most frequent states  *)
(* comes first.                                                            *)
create_dim_provider ==
    /\ run_no \in {"none", "first"}
    /\ IF ProviderFrames = <<>>
       THEN \* ValueError("No data found for dim_provider")
            /\ result' = "False"
            /\ pc' = IF pc = "provider" THEN "done" ELSE pc
            /\ UNCHANGED dim_provider
       ELSE /\ \E first \in [ProviderGroups(ProviderFrames) -> {"Unknown", "CA", "NY"}] :
                  /\ \A p \in ProviderGroups(ProviderFrames) :
                         first[p] \in StateModes(ProviderFrames, p)
                  /\ dim_provider' =
                        Table({DimProviderRow(p, first[p]) :
                                  p \in ProviderGroups(ProviderFrames)})
            /\ pc' = IF pc = "provider" THEN "claims" ELSE pc
            /\ UNCHANGED result
    /\ dim_provider_first' =
          IF run_no = "none" THEN dim_provider' ELSE dim_provider_first
    /\ run_no' = IF run_no = "none" THEN "first" ELSE "later"
    /\ UNCHANGED <<dim_beneficiary, fact_claims, fact_prescription,
                   fact_claim_diagnoses, bronze, member_year_metrics,
                   top_diagnoses_by_member, patient_api_view, outcome>>
    /\ UNCHANGED <<provider_src, partitioning, root_found, table_root,
                   combined, read_result, convvars, latevars>>

----------------------------------------------------------------------------
(* DataTransformer.create_fact_prescription                                *)

(* The columns a batch must have; a batch that lacks one is skipped *)
PdeRequired == {"DESYNPUF_ID", "SRVC_DT", "TOT_RX_CST_AMT"}

PdeMissingCols(batch) ==
    \/ ~(PdeRequired \subseteq DOMAIN batch.cells)
    \/ ("CLM_ID" \notin DOMAIN batch.cells /\ "PDE_ID" \notin DOMAIN batch.cells)

(* CLM_ID and PDE_ID are both selected as prescription_id: with both in    *)
(* the batch the select has two columns of one name and raises.            *)
PdeSelectRaises(batch) ==
    "CLM_ID" \in DOMAIN batch.cells /\ "PDE_ID" \in DOMAIN batch.cells

(* provider_col: PRVDR_ID, else PRSCRBR_ID, else PHRMCY_ID, else the       *)
(* placeholder                                                             *)
PdeProvider(batch) ==
    IF "PRVDR_ID" \in DOMAIN batch.cells THEN batch.cells["PRVDR_ID"]
    ELSE IF "PRSCRBR_ID" \in DOMAIN batch.cells THEN batch.cells["PRSCRBR_ID"]
    ELSE IF "PHRMCY_ID" \in DOMAIN batch.cells THEN batch.cells["PHRMCY_ID"]
    ELSE "Unknown"

PrescriptionRow(batch) ==
    [bene_id |-> batch.cells["DESYNPUF_ID"], year |-> batch.cells["year"],
     prescription_id |->
        IF "CLM_ID" \in DOMAIN batch.cells THEN batch.cells["CLM_ID"]
        ELSE batch.cells["PDE_ID"],
     provider_id |-> PdeProvider(batch)]

(* The last step of transform_all: it runs when the steps before it have   *)
(* returned.  Without a usable batch it raises ValueError, and             *)
(* run_transformation returns False.                                       *)
create_fact_prescription ==
    /\ pc = "done"
    /\ result = "none"
    /\ rx_outcome = "pending"
    /\ IF ~pde_batch.present \/ PdeMissingCols(pde_batch)
          \/ PdeSelectRaises(pde_batch)
       THEN /\ rx_outcome' = "raised"
            /\ result' = "False"
            /\ UNCHANGED fact_prescription
       ELSE /\ fact_prescription' = Table({PrescriptionRow(pde_batch)})
            /\ rx_outcome' = "written"
            /\ result' = "True"
    /\ UNCHANGED <<dim_beneficiary, fact_claims, fact_claim_diagnoses, bronze,
                   member_year_metrics, top_diagnoses_by_member,
                   patient_api_view, pc, outcome>>
    /\ UNCHANGED <<pde_batch, storevars, dimvars, convvars, benevars, apivars,
                   runvars>>

----------------------------------------------------------------------------
(* CSVToParquetConverter.convert_file                                      *)
(*                                                                         *)
(* The strings the code takes apart are sequences of characters; NullCode  *)
(* is the null cell.  A CSV file is a record [kind, name, date_col, rows]: *)
(* kind is the file type its name gives, name the parts of the file stem   *)
(* between the "_", date_col the date column it has ("none" without one),  *)
(* and rows a sequence of spans [DESYNPUF_ID, date, n], each standing for  *)
(* n consecutive rows with these two fields.                               *)

Digits == <<"0", "1", "2", "3", "4", "5", "6", "7", "8", "9">>

IsDigit(c) == \E d \in 1..Len(Digits) : Digits[d] = c

DigitValue(c) == (CHOOSE d \in 1..Len(Digits) : Digits[d] = c) - 1

RECURSIVE ToInt(_)
(* int(<string of digits>) *)
ToInt(str) ==
    IF str = <<>> THEN 0
    ELSE 10 * ToInt(SubSeq(str, 1, Len(str) - 1)) + DigitValue(str[Len(str)])

(* part.isdigit() and len(part) == 4 *)
IsYearPart(part) == Len(part) = 4 /\ \A i \in 1..Len(part) : IsDigit(part[i])

(* null_values of read_csv: "", "NA", "NULL", "null", "NaN", "nan" *)
NullValues ==
    {<<>>, <<"N", "A">>, <<"N", "U", "L", "L">>, <<"n", "u", "l", "l">>,
     <<"N", "a", "N">>, <<"n", "a", "n">>}

(* The cell read_csv makes of a field *)
ParseField(raw) == IF raw \in NullValues THEN NullCode ELSE raw

(* str.slice(0, n): the first n characters, fewer if the string is shorter, *)
(* null for null                                                            *)
Slice(cell, n) ==
    IF cell = NullCode THEN NullCode
    ELSE SubSeq(cell, 1, IF Len(cell) < n THEN Len(cell) ELSE n)

(* fill_null(token) *)
FillNull(cell, token) == IF cell = NullCode THEN token ELSE cell

(* pl.col("DESYNPUF_ID").str.slice(0, 2).fill_null("00") *)
BeneIdPrefix(cell) == FillNull(Slice(cell, 2), <<"0", "0">>)

RECURSIVE Take(_, _)
(* read_csv(n_rows=n): the first n rows of the file *)
Take(spans, n) ==
    IF spans = <<>> \/ n = 0 THEN <<>>
    ELSE IF Head(spans).n <= n
         THEN <<Head(spans)>> \o Take(Tail(spans), n - Head(spans).n)
         ELSE <<[Head(spans) EXCEPT !.n = n]>>

RECURSIVE PrefixCount(_, _)
(* The number of rows whose date starts with the four characters y *)
PrefixCount(spans, y) ==
    IF spans = <<>> THEN 0
    ELSE (IF Slice(Head(spans).date, 4) = y THEN Head(spans).n ELSE 0)
         + PrefixCount(Tail(spans), y)

(* df[<date column>].str.slice(0, 4).mode(): every most frequent prefix;   *)
(* polars fixes no order among them.                                       *)
YearModes(spans) ==
    LET seen == {Slice(spans[i].date, 4) : i \in 1..Len(spans)}
    IN {y \in seen : \A z \in seen : PrefixCount(spans, y) >= PrefixCount(spans, z)}

YearParts(name) == {i \in 1..Len(name) : IsYearPart(name[i])}

(* _extract_year: the values it can return, as cells (None is the null)    *)
ExtractYears(file) ==
    IF file.kind = "beneficiary" /\ YearParts(file.name) # {}
    THEN {Some(ToInt(file.name[CHOOSE i \in YearParts(file.name) :
                                  \A j \in YearParts(file.name) : i <= j]))}
    ELSE IF file.date_col \in {"CLM_FROM_DT", "SRVC_DT"}
    THEN {Some(ToInt(y)) : y \in YearModes(Take(file.rows, SampleRows))}
    ELSE {Null}

(* The rows of a span after with_columns: pl.lit(year) and bene_id_prefix *)
ConvertedRows(span, y) ==
    [DESYNPUF_ID |-> ParseField(span.DESYNPUF_ID),
     bene_id_prefix |-> BeneIdPrefix(ParseField(span.DESYNPUF_ID)),
     year |-> y, n |-> span.n]

(* self.column_types: the columns expected of each file type (the types
   themselves are not modelled) *)
column_types ==
    [beneficiary |->
        {"DESYNPUF_ID", "BENE_BIRTH_DT", "BENE_DEATH_DT",
         "BENE_SEX_IDENT_CD", "BENE_RACE_CD", "BENE_ESRD_IND",
         "SP_STATE_CODE", "BENE_COUNTY_CD", "BENE_HI_CVRAGE_TOT_MONS",
         "BENE_SMI_CVRAGE_TOT_MONS", "BENE_HMO_CVRAGE_TOT_MONS",
         "PLAN_CVRG_MOS_NUM", "SP_ALZHDMTA", "SP_CHF", "SP_CHRNKIDN",
         "SP_CNCR", "SP_COPD", "SP_DEPRESSN", "SP_DIABETES", "SP_ISCHMCHT",
         "SP_OSTEOPRS", "SP_RA_OA", "SP_STRKETIA", "MEDREIMB_IP",
         "BENRES_IP", "PPPYMT_IP", "MEDREIMB_OP", "BENRES_OP", "PPPYMT_OP",
         "MEDREIMB_CAR", "BENRES_CAR", "PPPYMT_CAR"},
     inpatient |->
        {"DESYNPUF_ID", "CLM_ID", "SEGMENT", "CLM_FROM_DT", "CLM_THRU_DT",
         "PRVDR_NUM", "CLM_PMT_AMT", "NCH_PRMRY_PYR_CLM_PD_AMT",
         "AT_PHYSN_NPI", "OP_PHYSN_NPI", "OT_PHYSN_NPI", "CLM_ADMSN_DT",
         "ADMTNG_ICD9_DGNS_CD", "CLM_PASS_THRU_PER_DIEM_AMT",
         "NCH_BENE_IP_DDCTBL_AMT", "NCH_BENE_PTA_COINSRNC_LBLTY_AM",
         "NCH_BENE_BLOOD_DDCTBL_LBLTY_AM", "CLM_UTLZTN_DAY_CNT",
         "NCH_BENE_DSCHRG_DT", "CLM_DRG_CD", "ICD9_DGNS_CD_1",
         "ICD9_DGNS_CD_2", "ICD9_DGNS_CD_3", "ICD9_DGNS_CD_4",
         "ICD9_DGNS_CD_5", "ICD9_DGNS_CD_6", "ICD9_DGNS_CD_7",
         "ICD9_DGNS_CD_8", "ICD9_DGNS_CD_9", "ICD9_DGNS_CD_10",
         "ICD9_PRCDR_CD_1", "ICD9_PRCDR_CD_2", "ICD9_PRCDR_CD_3",
         "ICD9_PRCDR_CD_4", "ICD9_PRCDR_CD_5", "ICD9_PRCDR_CD_6",
         "HCPCS_CD_1", "HCPCS_CD_2", "HCPCS_CD_3", "HCPCS_CD_4",
         "HCPCS_CD_5", "HCPCS_CD_6", "HCPCS_CD_7", "HCPCS_CD_8",
         "HCPCS_CD_9", "HCPCS_CD_10", "HCPCS_CD_11", "HCPCS_CD_12",
         "HCPCS_CD_13", "HCPCS_CD_14", "HCPCS_CD_15", "HCPCS_CD_16",
         "HCPCS_CD_17", "HCPCS_CD_18", "HCPCS_CD_19", "HCPCS_CD_20",
         "HCPCS_CD_21", "HCPCS_CD_22", "HCPCS_CD_23", "HCPCS_CD_24",
         "HCPCS_CD_25", "HCPCS_CD_26", "HCPCS_CD_27", "HCPCS_CD_28",
         "HCPCS_CD_29", "HCPCS_CD_30", "HCPCS_CD_31", "HCPCS_CD_32",
         "HCPCS_CD_33", "HCPCS_CD_34", "HCPCS_CD_35", "HCPCS_CD_36",
         "HCPCS_CD_37", "HCPCS_CD_38", "HCPCS_CD_39", "HCPCS_CD_40",
         "HCPCS_CD_41", "HCPCS_CD_42", "HCPCS_CD_43", "HCPCS_CD_44",
         "HCPCS_CD_45"},
     outpatient |->
        {"DESYNPUF_ID", "CLM_ID", "SEGMENT", "CLM_FROM_DT", "CLM_THRU_DT",
         "PRVDR_NUM", "CLM_PMT_AMT", "NCH_PRMRY_PYR_CLM_PD_AMT",
         "AT_PHYSN_NPI", "OP_PHYSN_NPI", "OT_PHYSN_NPI",
         "NCH_BENE_BLOOD_DDCTBL_LBLTY_AM", "ICD9_DGNS_CD_1",
         "ICD9_DGNS_CD_2", "ICD9_DGNS_CD_3", "ICD9_DGNS_CD_4",
         "ICD9_DGNS_CD_5", "ICD9_DGNS_CD_6", "ICD9_DGNS_CD_7",
         "ICD9_DGNS_CD_8", "ICD9_DGNS_CD_9", "ICD9_DGNS_CD_10",
         "ICD9_PRCDR_CD_1", "ICD9_PRCDR_CD_2", "ICD9_PRCDR_CD_3",
         "ICD9_PRCDR_CD_4", "ICD9_PRCDR_CD_5", "ICD9_PRCDR_CD_6",
         "NCH_BENE_PTB_DDCTBL_AMT", "NCH_BENE_PTB_COINSRNC_AMT",
         "ADMTNG_ICD9_DGNS_CD", "HCPCS_CD_1", "HCPCS_CD_2", "HCPCS_CD_3",
         "HCPCS_CD_4", "HCPCS_CD_5", "HCPCS_CD_6", "HCPCS_CD_7",
         "HCPCS_CD_8", "HCPCS_CD_9", "HCPCS_CD_10", "HCPCS_CD_11",
         "HCPCS_CD_12", "HCPCS_CD_13", "HCPCS_CD_14", "HCPCS_CD_15",
         "HCPCS_CD_16", "HCPCS_CD_17", "HCPCS_CD_18", "HCPCS_CD_19",
         "HCPCS_CD_20", "HCPCS_CD_21", "HCPCS_CD_22", "HCPCS_CD_23",
         "HCPCS_CD_24", "HCPCS_CD_25", "HCPCS_CD_26", "HCPCS_CD_27",
         "HCPCS_CD_28", "HCPCS_CD_29", "HCPCS_CD_30", "HCPCS_CD_31",
         "HCPCS_CD_32", "HCPCS_CD_33", "HCPCS_CD_34", "HCPCS_CD_35",
         "HCPCS_CD_36", "HCPCS_CD_37", "HCPCS_CD_38", "HCPCS_CD_39",
         "HCPCS_CD_40", "HCPCS_CD_41", "HCPCS_CD_42", "HCPCS_CD_43",
         "HCPCS_CD_44", "HCPCS_CD_45"},
     carrier |->
        {"DESYNPUF_ID", "CLM_ID", "CLM_FROM_DT", "CLM_THRU_DT",
         "ICD9_DGNS_CD_1", "ICD9_DGNS_CD_2", "ICD9_DGNS_CD_3",
         "ICD9_DGNS_CD_4", "ICD9_DGNS_CD_5", "ICD9_DGNS_CD_6",
         "ICD9_DGNS_CD_7", "ICD9_DGNS_CD_8", "PRF_PHYSN_NPI_1",
         "PRF_PHYSN_NPI_2", "PRF_PHYSN_NPI_3", "PRF_PHYSN_NPI_4",
         "PRF_PHYSN_NPI_5", "PRF_PHYSN_NPI_6", "PRF_PHYSN_NPI_7",
         "PRF_PHYSN_NPI_8", "PRF_PHYSN_NPI_9", "PRF_PHYSN_NPI_10",
         "PRF_PHYSN_NPI_11", "PRF_PHYSN_NPI_12", "PRF_PHYSN_NPI_13",
         "TAX_NUM_1", "TAX_NUM_2", "TAX_NUM_3", "TAX_NUM_4", "TAX_NUM_5",
         "TAX_NUM_6", "TAX_NUM_7", "TAX_NUM_8", "TAX_NUM_9", "TAX_NUM_10",
         "TAX_NUM_11", "TAX_NUM_12", "TAX_NUM_13", "HCPCS_CD_1",
         "HCPCS_CD_2", "HCPCS_CD_3", "HCPCS_CD_4", "HCPCS_CD_5",
         "HCPCS_CD_6", "HCPCS_CD_7", "HCPCS_CD_8", "HCPCS_CD_9",
         "HCPCS_CD_10", "HCPCS_CD_11", "HCPCS_CD_12", "HCPCS_CD_13",
         "LINE_NCH_PMT_AMT_1", "LINE_NCH_PMT_AMT_2", "LINE_NCH_PMT_AMT_3",
         "LINE_NCH_PMT_AMT_4", "LINE_NCH_PMT_AMT_5", "LINE_NCH_PMT_AMT_6",
         "LINE_NCH_PMT_AMT_7", "LINE_NCH_PMT_AMT_8", "LINE_NCH_PMT_AMT_9",
         "LINE_NCH_PMT_AMT_10", "LINE_NCH_PMT_AMT_11",
         "LINE_NCH_PMT_AMT_12", "LINE_NCH_PMT_AMT_13",
         "LINE_BENE_PTB_DDCTBL_AMT_1", "LINE_BENE_PTB_DDCTBL_AMT_2",
         "LINE_BENE_PTB_DDCTBL_AMT_3", "LINE_BENE_PTB_DDCTBL_AMT_4",
         "LINE_BENE_PTB_DDCTBL_AMT_5", "LINE_BENE_PTB_DDCTBL_AMT_6",
         "LINE_BENE_PTB_DDCTBL_AMT_7", "LINE_BENE_PTB_DDCTBL_AMT_8",
         "LINE_BENE_PTB_DDCTBL_AMT_9", "LINE_BENE_PTB_DDCTBL_AMT_10",
         "LINE_BENE_PTB_DDCTBL_AMT_11", "LINE_BENE_PTB_DDCTBL_AMT_12",
         "LINE_BENE_PTB_DDCTBL_AMT_13", "LINE_BENE_PRMRY_PYR_PD_AMT_1",
         "LINE_BENE_PRMRY_PYR_PD_AMT_2", "LINE_BENE_PRMRY_PYR_PD_AMT_3",
         "LINE_BENE_PRMRY_PYR_PD_AMT_4", "LINE_BENE_PRMRY_PYR_PD_AMT_5",
         "LINE_BENE_PRMRY_PYR_PD_AMT_6", "LINE_BENE_PRMRY_PYR_PD_AMT_7",
         "LINE_BENE_PRMRY_PYR_PD_AMT_8", "LINE_BENE_PRMRY_PYR_PD_AMT_9",
         "LINE_BENE_PRMRY_PYR_PD_AMT_10", "LINE_BENE_PRMRY_PYR_PD_AMT_11",
         "LINE_BENE_PRMRY_PYR_PD_AMT_12", "LINE_BENE_PRMRY_PYR_PD_AMT_13",
         "LINE_COINSRNC_AMT_1", "LINE_COINSRNC_AMT_2",
         "LINE_COINSRNC_AMT_3", "LINE_COINSRNC_AMT_4",
         "LINE_COINSRNC_AMT_5", "LINE_COINSRNC_AMT_6",
         "LINE_COINSRNC_AMT_7", "LINE_COINSRNC_AMT_8",
         "LINE_COINSRNC_AMT_9", "LINE_COINSRNC_AMT_10",
         "LINE_COINSRNC_AMT_11", "LINE_COINSRNC_AMT_12",
         "LINE_COINSRNC_AMT_13", "LINE_ALOWD_CHRG_AMT_1",
         "LINE_ALOWD_CHRG_AMT_2", "LINE_ALOWD_CHRG_AMT_3",
         "LINE_ALOWD_CHRG_AMT_4", "LINE_ALOWD_CHRG_AMT_5",
         "LINE_ALOWD_CHRG_AMT_6", "LINE_ALOWD_CHRG_AMT_7",
         "LINE_ALOWD_CHRG_AMT_8", "LINE_ALOWD_CHRG_AMT_9",
         "LINE_ALOWD_CHRG_AMT_10", "LINE_ALOWD_CHRG_AMT_11",
         "LINE_ALOWD_CHRG_AMT_12", "LINE_ALOWD_CHRG_AMT_13",
         "LINE_PRCSG_IND_CD_1", "LINE_PRCSG_IND_CD_2",
         "LINE_PRCSG_IND_CD_3", "LINE_PRCSG_IND_CD_4",
         "LINE_PRCSG_IND_CD_5", "LINE_PRCSG_IND_CD_6",
         "LINE_PRCSG_IND_CD_7", "LINE_PRCSG_IND_CD_8",
         "LINE_PRCSG_IND_CD_9", "LINE_PRCSG_IND_CD_10",
         "LINE_PRCSG_IND_CD_11", "LINE_PRCSG_IND_CD_12",
         "LINE_PRCSG_IND_CD_13", "LINE_ICD9_DGNS_CD_1",
         "LINE_ICD9_DGNS_CD_2", "LINE_ICD9_DGNS_CD_3",
         "LINE_ICD9_DGNS_CD_4", "LINE_ICD9_DGNS_CD_5",
         "LINE_ICD9_DGNS_CD_6", "LINE_ICD9_DGNS_CD_7",
         "LINE_ICD9_DGNS_CD_8", "LINE_ICD9_DGNS_CD_9",
         "LINE_ICD9_DGNS_CD_10", "LINE_ICD9_DGNS_CD_11",
         "LINE_ICD9_DGNS_CD_12", "LINE_ICD9_DGNS_CD_13"},
     pde |->
        {"DESYNPUF_ID", "PDE_ID", "SRVC_DT", "PROD_SRVC_ID",
         "QTY_DSPNSD_NUM", "DAYS_SUPLY_NUM", "PTNT_PAY_AMT",
         "TOT_RX_CST_AMT"}]

(* _normalize_beneficiary_data: SEX, RACE and STATE_CODE are added for the *)
(* coded columns the batch has, and those coded columns are dropped.       *)
NormalizedCodes ==
    {<<"BENE_SEX_IDENT_CD", "SEX">>, <<"BENE_RACE_CD", "RACE">>,
     <<"SP_STATE_CODE", "STATE_CODE">>}

normalize_beneficiary_columns(cols) ==
    (cols \cup {m[2] : m \in {n \in NormalizedCodes : n[1] \in cols}})
        \ {m[1] : m \in NormalizedCodes}

(* normalize_data: only beneficiary batches are changed; no column is      *)
(* added for a column the batch lacks.                                     *)
normalize_data_columns(cols, file_type) ==
    IF file_type = "beneficiary" THEN normalize_beneficiary_columns(cols)
    ELSE cols

(* The columns of the frame convert_file writes: read_csv yields the       *)
(* columns of the header, then normalize_data, year, sample_id and, with   *)
(* DESYNPUF_ID, bene_id_prefix.                                            *)
ConvertedColumns(cols, file_type) ==
    normalize_data_columns(cols, file_type) \cup {"year", "sample_id"}
        \cup (IF "DESYNPUF_ID" \in cols THEN {"bene_id_prefix"} ELSE {})

(* The nine payment columns of a beneficiary batch *)
PaymentColumns ==
    {"MEDREIMB_IP", "BENRES_IP", "PPPYMT_IP", "MEDREIMB_OP", "BENRES_OP",
     "PPPYMT_OP", "MEDREIMB_CAR", "BENRES_CAR", "PPPYMT_CAR"}

(* The beneficiary batch beneath <bronze>/beneficiary: its columns and,    *)
(* for each row, the patient, the year and the cells of the payment        *)
(* columns.                                                                *)
NoBeneficiaryBatch == [present |-> FALSE, columns |-> {}, rows |-> <<>>]

BeneficiaryBatch(cols, rows) ==
    [present |-> TRUE, columns |-> cols, rows |-> rows]

(* The rows of a converted beneficiary file as the transformer reads them *)
BeneficiaryRows(file, y) ==
    [i \in 1..Len(file.rows) |->
        [DESYNPUF_ID |-> ParseField(file.rows[i].DESYNPUF_ID),
         year |-> y,
         amounts |-> file.rows[i].amounts]]

NoCsv == [kind |-> "none", name |-> <<>>, date_col |-> "none", rows |-> <<>>]

NotConverted == [written |-> FALSE, year |-> Null, rows |-> <<>>]

(* mode()[0] takes whichever of the most frequent prefixes comes first *)
convert_file ==
    /\ csv_file # NoCsv
    /\ ~bronze_batch.written
    /\ \E y \in ExtractYears(csv_file) :
          /\ bronze_batch' =
                [written |-> TRUE, year |-> y,
                 rows |-> [i \in 1..Len(csv_file.rows) |->
                             ConvertedRows(csv_file.rows[i], y)]]
          /\ bene_bronze' =
                IF csv_file.kind = "beneficiary"
                THEN BeneficiaryBatch(
                        ConvertedColumns(csv_columns, csv_file.kind),
                        BeneficiaryRows(csv_file, y))
                ELSE bene_bronze
    /\ bronze_columns' = ConvertedColumns(csv_columns, csv_file.kind)
    /\ UNCHANGED <<csv_file, csv_columns, pipevars, storevars, dimvars,
                   apivars, rxvars, runvars>>

----------------------------------------------------------------------------
(* DataTransformer.create_dim_beneficiary                                  *)

(* The columns df.rename is given; rename raises when the frame lacks one *)
RenamedColumns ==
    {"DESYNPUF_ID", "BENE_SEX_IDENT_CD", "BENE_RACE_CD", "SP_STATE_CODE",
     "BENE_BIRTH_DT", "BENE_DEATH_DT"} \cup PaymentColumns

RenameRaises(batch) == ~(RenamedColumns \subseteq batch.columns)

(* ip + op + car of one payer; + is null when an operand is null *)
PayerTotal(r, payer) ==
    AddCells(AddCells(r.amounts[payer[1]], r.amounts[payer[2]]),
             r.amounts[payer[3]])

TotalMedicarePayment(r) ==
    PayerTotal(r, <<"MEDREIMB_IP", "MEDREIMB_OP", "MEDREIMB_CAR">>)

TotalBeneficiaryPayment(r) ==
    PayerTotal(r, <<"BENRES_IP", "BENRES_OP", "BENRES_CAR">>)

TotalThirdPartyPayment(r) ==
    PayerTotal(r, <<"PPPYMT_IP", "PPPYMT_OP", "PPPYMT_CAR">>)

(* total_medicare_payment + total_beneficiary_payment +                    *)
(* total_third_party_payment                                               *)
TotalAllowed(r) ==
    AddCells(AddCells(TotalMedicarePayment(r), TotalBeneficiaryPayment(r)),
             TotalThirdPartyPayment(r))

TotalPaidOfProgramOnly(r) == TotalMedicarePayment(r)

(* total_medicare_payment + total_beneficiary_payment *)
TotalPaid(r) == AddCells(TotalMedicarePayment(r), TotalBeneficiaryPayment(r))

DimBeneficiaryRow(r) ==
    [bene_id |-> r.DESYNPUF_ID, year |-> r.year,
     total_allowed |-> TotalAllowed(r), total_paid |-> TotalPaid(r)]

(* The first step of transform_all.  "No beneficiary files found" and a    *)
(* failing rename both leave transform_all with an exception, and          *)
(* run_transformation returns False; otherwise the single file             *)
(* dim_beneficiary.parquet is written and the later steps follow.          *)
create_dim_beneficiary ==
    /\ pc = "beneficiary"
    /\ csv_file = NoCsv \/ bronze_batch.written
    /\ IF ~bene_bronze.present \/ RenameRaises(bene_bronze)
       THEN /\ pc' = "done"
            /\ result' = "False"
            /\ UNCHANGED dim_beneficiary
       ELSE /\ dim_beneficiary' =
                  TableSeq([i \in 1..Len(bene_bronze.rows) |->
                              DimBeneficiaryRow(bene_bronze.rows[i])])
            /\ pc' = "metrics"
            /\ UNCHANGED result
    /\ UNCHANGED <<fact_claims, fact_prescription, fact_claim_diagnoses,
                   bronze, member_year_metrics, top_diagnoses_by_member,
                   patient_api_view, outcome>>
    /\ UNCHANGED <<storevars, dimvars, convvars, latevars>>

----------------------------------------------------------------------------
(* The API server: load_patient_data and get_patient_year_data             *)

(* year: int = Query(..., ge=2008, le=2010) *)
MinYear == 2008
MaxYear == 2010

(* head(5) of the sorted diagnoses *)
HeadRows == 5

(* partition_by("year", as_dict=True): the key of a partition is the tuple *)
(* of its values                                                           *)
PartitionKeyOfYear(y) == <<y>>

(* f"year={key}" in the builder: the text of a one-element tuple *)
BuilderDirectory(key) == <<"year=", "(", key[1], ",)">>

(* f"year=({year},)" in the server *)
ServerDirectory(year) == <<"year=", "(", year, ",)">>

NoDirectory == [patient_metrics |-> NoFile, patient_diagnoses |-> NoFile]

(* The directory beneath patient_api_view that the server opens *)
PatientDirectory(view, year) ==
    LET ys == {y \in DOMAIN view :
                  BuilderDirectory(PartitionKeyOfYear(y)) = ServerDirectory(year)}
    IN IF ys = {} THEN NoDirectory ELSE view[CHOOSE y \in ys : TRUE]

(* sort("diagnosis_rank"): the rows in an order of nondecreasing rank;     *)
(* the sort keeps no order among rows of equal rank.                       *)
RankOrders(rows) ==
    {o \in [1..Cardinality(rows) -> rows] :
        /\ \A i, j \in DOMAIN o : i # j => o[i] # o[j]
        /\ \A i, j \in DOMAIN o :
              i < j => o[i].diagnosis_rank <= o[j].diagnosis_rank}

HeadOf(o, n) == SubSeq(o, 1, IF Len(o) < n THEN Len(o) ELSE n)

Diagnosis(row) ==
    [code |-> row.diagnosis_code, description |-> row.diagnosis_description,
     spend |-> row.diagnosis_payment]

(* The lists load_patient_data can put under "diagnoses" *)
LoadedDiagnoses(dir, bene_id) ==
    IF ~dir.patient_diagnoses.exists THEN {<<>>}
    ELSE LET filtered == {r \in dir.patient_diagnoses.rows : r.bene_id = bene_id}
         IN {[i \in DOMAIN HeadOf(o, HeadRows) |-> Diagnosis(o[i])] :
                o \in RankOrders(filtered)}

NotFound == [status |-> 404, body |-> {}]
Unprocessable == [status |-> 422, body |-> {}]
ServerError == [status |-> 500, body |-> {}]

(* PatientYearResponse(...): float(None) raises TypeError *)
PatientYearResponse(row, year, diagnoses) ==
    IF row.total_allowed = Null \/ row.total_paid = Null THEN ServerError
    ELSE [status |-> 200,
          body |-> {[bene_id |-> row.bene_id, year |-> year,
                     total_allowed |-> CellValue(row.total_allowed),
                     total_paid |-> CellValue(row.total_paid),
                     inpatient_stays |-> row.inpatient_stays,
                     outpatient_visits |-> row.outpatient_visits,
                     rx_fills |-> row.rx_fills,
                     unique_providers |-> row.unique_providers,
                     top_diagnoses |-> diagnoses]}]

(* The answers the server can give; filtered_df.row(0) is the first of the *)
(* rows of the patient in the file.                                        *)
Responses(view, bene_id, year) ==
    IF year < MinYear \/ year > MaxYear THEN {Unprocessable}
    ELSE LET dir == PatientDirectory(view, year)
             filtered == {r \in dir.patient_metrics.rows : r.bene_id = bene_id}
         IN IF ~dir.patient_metrics.exists \/ filtered = {} THEN {NotFound}
            ELSE {PatientYearResponse(r, year, d) :
                     r \in filtered, d \in LoadedDiagnoses(dir, bene_id)}

NoRequest == [bene_id |-> NullStr, year |-> 0]

Requests == {[bene_id |-> b, year |-> y] :
                b \in {"B1", "B2", "B9"}, y \in (MinYear - 1)..MaxYear}

(* GET /patient/{bene_id}?year=..., asked once and then once more *)
get_patient_year_data ==
    /\ pc = "done"
    /\ serve_no \in {"none", "first"}
    /\ \E q \in Requests :
          /\ serve_no = "first" => q = request
          /\ request' = q
          /\ response' \in Responses(patient_api_view, q.bene_id, q.year)
    /\ response_first' = IF serve_no = "none" THEN response' ELSE response_first
    /\ serve_no' = IF serve_no = "none" THEN "first" ELSE "later"
    /\ UNCHANGED <<pipevars, storevars, dimvars, convvars, benevars, rxvars,
                   runvars>>

----------------------------------------------------------------------------
(* Input data                                                              *)

BeneRow(b, y) ==
    [bene_id |-> b, year |-> y, total_allowed |-> 160, total_paid |-> 150]

ClaimRow(b, y, t, id, p) ==
    [bene_id |-> b, year |-> y, claim_type |-> t, claim_id |-> id,
     provider_id |-> p, medicare_payment |-> Some(100),
     third_party_payment |-> Some(10), patient_payment |-> Some(0),
     total_payment |-> Some(110)]

RxRow(b, y, id, p) ==
    [bene_id |-> b, year |-> y, prescription_id |-> id, provider_id |-> p]

DiagLine(b, y, id, code, pos, pay) ==
    [bene_id |-> b, year |-> y, claim_id |-> id, diagnosis_code |-> code,
     diagnosis_position |-> pos, payment |-> pay, claim_type |-> "inpatient",
     diagnosis_description |-> get_icd9_description(code)]

FactKeys == {<<"B1", 2008>>, <<"B1", 2009>>}
BeneKeys == FactKeys \cup {<<"B2", 2008>>}
ClaimIds == {"c1", "c2"}
RxIds == {"r1", "r2"}
ProvVals == {NullStr, "", "P1", "P2"}

DiagCodes ==
    << <<"2", "5", "0", "0", "0">>, <<"4", "0", "1", "9">>,
       <<"2", "7", "2", "4">>,      <<"4", "2", "8", "0">>,
       <<"V", "5">>,                <<"7", "8", "6", "5", "0">>,
       <<"2", "5", "0", "0", "1">>, <<"4", "9", "6">> >>

(* Sequences of at most n elements of S *)
SeqsUpTo(S, n) == UNION {[1..m -> S] : m \in 0..n}

(* Non-empty subsets of S of at most n elements: a stored table has rows *)
SubsetsUpTo(S, n) == {T \in SUBSET S : T # {} /\ Cardinality(T) <= n}

BeneFixed ==
    TableSeq(<<BeneRow("B1", 2008), BeneRow("B1", 2009), BeneRow("B2", 2008)>>)

BeneTables ==
    {AbsentSeq} \cup
    {TableSeq(s) : s \in SeqsUpTo({BeneRow(k[1], k[2]) : k \in BeneKeys}, MaxBene)}

ClaimsFixed ==
    Table({ClaimRow("B1", 2008, "inpatient", "c1", "P1"),
           ClaimRow("B1", 2008, "outpatient", "c2", "P2"),
           ClaimRow("B1", 2009, "carrier", "c3", "P1")})

ClaimsNoCarrier ==
    Table({ClaimRow("B1", 2008, "inpatient", "c1", "P1"),
           ClaimRow("B1", 2008, "outpatient", "c2", "P2")})

(* Tables that vary the key, the kind and the claim id of each claim *)
CountClaimTables ==
    {Table(T) : T \in SubsetsUpTo(
        {ClaimRow(k[1], k[2], t, id, "P1") :
            k \in FactKeys, t \in ClaimTypes, id \in ClaimIds}, MaxClaims)}

(* Tables with a claim of every kind that vary the provider of each claim *)
ProviderClaimTables ==
    {Table({ClaimRow("B1", 2008, "inpatient", "c1", p[1]),
            ClaimRow("B1", 2008, "outpatient", "c2", p[2]),
            ClaimRow("B1", 2008, "carrier", "c3", p[3])} \cup extra) :
        p \in [1..3 -> ProvVals],
        extra \in {{}} \cup {{ClaimRow("B1", 2009, "carrier", "c4", q)} : q \in ProvVals}}

RxFixed ==
    Table({RxRow("B1", 2008, "r1", "P2"), RxRow("B1", 2008, "r2", "P3")})

(* Tables that vary the key and the prescription id *)
RxTables ==
    {Table(T) : T \in SubsetsUpTo(
        {RxRow(k[1], k[2], id, "P1") : k \in FactKeys, id \in RxIds}, MaxRx)}

(* Tables that vary the key and the provider *)
ProviderRxTables ==
    {Table(T) : T \in SubsetsUpTo(
        {RxRow(k[1], k[2], "r1", p) : k \in FactKeys, p \in ProvVals}, MaxRx)}

(* Bronze batches.  Every batch has the structural columns; which of the  *)
(* provider and amount columns it has, and their cells, vary.              *)
DiagFile(id, provs, amts, cds) ==
    [DESYNPUF_ID |-> "B1", CLM_ID |-> id, year |-> 2008,
     providers |-> provs, amounts |-> amts, codes |-> cds]

(* A batch with one populated diagnosis slot *)
BronzeFile(id, provs, amts) ==
    DiagFile(id, provs, amts, [c \in {<<DiagPrefixes[1], 1>>} |-> DiagCodes[1]])

AmountCells == {Null, Some(0), Some(3)}
ProviderCells == {NullStr, "P1"}

(* The functions from any subset of the columns C to the cells V *)
Partial(C, V) == UNION {[D -> V] : D \in SUBSET C}

FacilityFiles(id) ==
    {BronzeFile(id, p, a) :
        p \in Partial({"PRVDR_NUM"}, ProviderCells),
        a \in Partial({"CLM_PMT_AMT", "NCH_PRMRY_PYR_CLM_PD_AMT"}, AmountCells)}

CarrierFiles ==
    {BronzeFile("c3", p, a) :
        p \in Partial({"PRVDR_NUM", "PRVDR_NPI"}, ProviderCells),
        a \in Partial({"CLM_PMT_AMT", LINE_PMT_COLS[1], LINE_PMT_COLS[2],
                       "CLM_OP_PRVDR_PMT_AMT", LINE_PRVDR_PMT_COLS[1]},
                      AmountCells)}

FacilityFixed(id) ==
    BronzeFile(id, [c \in {"PRVDR_NUM"} |-> "P1"],
               [c \in {"CLM_PMT_AMT", "NCH_PRMRY_PYR_CLM_PD_AMT"} |-> Some(3)])

CarrierFixed ==
    BronzeFile("c3", [c \in {"PRVDR_NPI"} |-> "P1"],
               [c \in {LINE_PMT_COLS[1], LINE_PRVDR_PMT_COLS[1]} |-> Some(3)])

(* At most one file per kind *)
OneOrNone(F) == {<<>>} \cup {<<f>> : f \in F}

(* Batches that vary which diagnosis columns they have, and their cells *)
CodeCells == {NullCode, <<>>, DiagCodes[1], DiagCodes[2]}

SlotColumns ==
    {<<DiagPrefixes[1], i>> : i \in 1..MaxSlot} \cup {<<DiagPrefixes[2], 1>>}

FacilityDiagFiles(id) ==
    {DiagFile(id, [c \in {"PRVDR_NUM"} |-> "P1"],
              [c \in {"CLM_PMT_AMT", "NCH_PRMRY_PYR_CLM_PD_AMT"} |-> Some(3)],
              cds) : cds \in Partial(SlotColumns, CodeCells)}

CarrierDiagFiles ==
    {DiagFile("c3", [c \in {"PRVDR_NPI"} |-> "P1"], a, cds) :
        a \in {[c \in {"CLM_PMT_AMT"} |-> Some(5)],
               [c \in {LINE_PMT_COLS[1], LINE_PMT_COLS[2]} |-> Some(3)]},
        cds \in Partial({<<DiagPrefixes[1], 1>>}, CodeCells)}

DiagFixed ==
    Table({DiagLine("B1", 2008, "c1", DiagCodes[1], 1, Some(100)),
           DiagLine("B1", 2008, "c1", DiagCodes[2], 2, Some(100)),
           DiagLine("B1", 2009, "c3", DiagCodes[1], 1, Some(100))})

(* Payments of the codes 1..n of the main patient-year, one line each.     *)
(* Grouping and ranking do not depend on which code carries which payment, *)
(* so every multiset of payments is listed once, in nondecreasing order.   *)
RECURSIVE NonDecreasing(_, _)
NonDecreasing(n, lo) ==
    IF n = 0 THEN {<<>>}
    ELSE UNION {{<<v>> \o q : q \in NonDecreasing(n - 1, v)} : v \in lo..MaxPay}

MainPayments == UNION {NonDecreasing(n, 0) : n \in 1..MaxCodes}

MainLines(p) ==
    {DiagLine("B1", 2008, "c1", DiagCodes[i], i, Some(p[i])) : i \in 1..Len(p)}

(* A second claim of the main patient-year that repeats the first code *)
SecondClaimLines ==
    {{}} \cup {{DiagLine("B1", 2008, "c2", DiagCodes[1], 1, pay)} :
                 pay \in {Null, Some(1), Some(MaxPay)}}

(* Lines of another patient-year *)
OtherYearLines ==
    {{}, {DiagLine("B1", 2009, "c3", DiagCodes[1], 1, Some(1)),
          DiagLine("B1", 2009, "c3", DiagCodes[2], 2, Some(2))}}

DiagTables ==
    {Table(MainLines(p) \cup s \cup o) :
        p \in MainPayments, s \in SecondClaimLines, o \in OtherYearLines}

(* Frames written to a partitioned table: the partition columns and one   *)
(* more column; a frame may hold the same row twice.                       *)
StoreRow(y, p) == [year |-> y, bene_id_prefix |-> p, claim_id |-> "c1"]

Frames ==
    UNION {[1..n -> {StoreRow(y, p) : y \in Years, p \in Prefixes}] :
              n \in 1..MaxFrame}

(* The table root as the first run finds it: missing, empty, or holding a  *)
(* file that cannot be read.                                               *)
FoundRoots(cols) ==
    {MissingRoot(cols), EmptyRoot(cols)}
    \cup {[exists |-> TRUE,
           files |-> [EmptyRoot(cols).files EXCEPT ![k] = Unreadable]] :
             k \in PartitionKeys(cols)}

(* The provider and state cells of the rows of the bronze batches *)
ProviderObservations ==
    {[provider_id |-> p, state |-> st] :
        p \in ProvVals, st \in {NullStr, "CA", "NY"}}

(* CSV files.  Dates have the form YYYYMMDD.                               *)
Date2008 == <<"2", "0", "0", "8", "0", "3", "1", "2">>
Date2009 == <<"2", "0", "0", "9", "1", "1", "3", "0">>

RawIds ==
    {<<>>, <<"A">>, <<"A", "B">>, <<"A", "B", "C">>, <<"N", "A">>}

Span(id, date, n) == [DESYNPUF_ID |-> id, date |-> date, n |-> n]

(* Files that vary in the patient identifiers of their rows *)
IdFiles ==
    {[kind |-> "inpatient", name |-> <<>>, date_col |-> "CLM_FROM_DT",
      rows |-> rs] :
        rs \in UNION {[1..m -> {Span(id, Date2008, 1) : id \in RawIds}] :
                        m \in 1..MaxSpans}}

(* Files that vary in the dates of their rows and in how many rows they    *)
(* have before and after the row limit of the year sample                  *)
SpanLengths == {1, SampleRows - 400, SampleRows}

DateFiles ==
    {[kind |-> k[1], name |-> <<>>, date_col |-> k[2], rows |-> rs] :
        k \in {<<"inpatient", "CLM_FROM_DT">>, <<"pde", "SRVC_DT">>},
        rs \in UNION {[1..m -> {Span(<<"A", "B", "C">>, d, n) :
                                   d \in {Date2008, Date2009},
                                   n \in SpanLengths}] : m \in 1..MaxSpans}}

(* Beneficiary files that vary in their name *)
NameParts ==
    {<<"D", "E", "1">>, <<"2", "0", "0", "8">>, <<"2", "0", "1", "0">>,
     <<"2", "0", "0", "8", "1">>, <<"0">>}

(* A row of a beneficiary file has the cells of the payment columns too *)
BeneficiarySpan(id, amounts) ==
    [DESYNPUF_ID |-> id, date |-> NullCode, n |-> 1, amounts |-> amounts]

PaidOne == [c \in PaymentColumns |-> Some(1)]

BeneficiaryFiles ==
    {[kind |-> "beneficiary", name |-> nm, date_col |-> "none",
      rows |-> <<BeneficiarySpan(<<"A", "B", "C">>, PaidOne)>>] :
        nm \in UNION {[1..m -> NameParts] : m \in 1..MaxParts}}

(* The header of a file of the families above: the columns its rows have *)
HeaderOf(file) ==
    {"DESYNPUF_ID"}
        \cup (IF file.date_col = "none" THEN {} ELSE {file.date_col})
        \cup (IF file.kind = "beneficiary" THEN PaymentColumns ELSE {})

(* Files that vary in the expected columns their header lacks *)
Droppable ==
    [beneficiary |-> {"BENE_SEX_IDENT_CD", "BENE_RACE_CD", "SP_STATE_CODE",
                      "BENE_DEATH_DT", "BENE_ESRD_IND"},
     pde |-> {"PDE_ID", "PROD_SRVC_ID", "QTY_DSPNSD_NUM", "PTNT_PAY_AMT"},
     inpatient |-> {"PRVDR_NUM", "CLM_ADMSN_DT", "HCPCS_CD_45"}]

SchemaFile ==
    [beneficiary |->
        [kind |-> "beneficiary", name |-> <<<<"2", "0", "0", "8">>>>,
         date_col |-> "none",
         rows |-> <<BeneficiarySpan(<<"A", "B", "C">>, PaidOne)>>],
     pde |->
        [kind |-> "pde", name |-> <<>>, date_col |-> "SRVC_DT",
         rows |-> <<Span(<<"A", "B", "C">>, Date2008, 1)>>],
     inpatient |->
        [kind |-> "inpatient", name |-> <<>>, date_col |-> "CLM_FROM_DT",
         rows |-> <<Span(<<"A", "B", "C">>, Date2009, 1)>>]]

Headers(kind) == {column_types[kind] \ d : d \in SUBSET Droppable[kind]}

(* Beneficiary batches as the transformer reads them.  The nine payment    *)
(* cells of the first row differ, so that every sum of them tells which    *)
(* of them it adds; one cell at a time is null or zero.                    *)
BaseAmounts ==
    [MEDREIMB_IP |-> Some(1), BENRES_IP |-> Some(2), PPPYMT_IP |-> Some(4),
     MEDREIMB_OP |-> Some(8), BENRES_OP |-> Some(16), PPPYMT_OP |-> Some(32),
     MEDREIMB_CAR |-> Some(64), BENRES_CAR |-> Some(128),
     PPPYMT_CAR |-> Some(256)]

AmountsFamily ==
    {BaseAmounts} \cup
    {[BaseAmounts EXCEPT ![c] = v] : c \in PaymentColumns, v \in {Null, Some(0)}}

BronzeBeneRow(b, y, a) == [DESYNPUF_ID |-> b, year |-> y, amounts |-> a]

BeneficiaryColumns == RenamedColumns \cup {"year", "sample_id", "bene_id_prefix"}

BeneBatches ==
    {BeneficiaryBatch(BeneficiaryColumns,
                      <<BronzeBeneRow("B1", 2008, a),
                        BronzeBeneRow("B2", 2008, PaidOne),
                        BronzeBeneRow("B1", 2009, PaidOne)>>) :
        a \in AmountsFamily}

BeneBatchFixed ==
    BeneficiaryBatch(BeneficiaryColumns,
                     <<BronzeBeneRow("B1", 2008, BaseAmounts),
                       BronzeBeneRow("B1", 2009, PaidOne)>>)

(* Diagnosis tables whose codes tie, at the cutoff and before it *)
ServedPayments ==
    {<<3>>, <<3, 3>>, <<5, 4, 3, 2, 1>>, <<5, 4, 3, 2, 1, 1>>,
     <<6, 5, 4, 3, 2, 1>>, <<2, 2, 1, 1>>}

ServedDiagTables == {Table(MainLines(p) \cup o) : p \in ServedPayments,
                                                   o \in OtherYearLines}

(* Prescription batches that vary in their identifier and provider columns *)
PdeBase ==
    [DESYNPUF_ID |-> "B1", SRVC_DT |-> "20080312", TOT_RX_CST_AMT |-> "10",
     year |-> 2008]

PdeFixed == PdeBatch(PdeBase @@ [c \in {"PDE_ID", "PRSCRBR_ID"} |-> IF c = "PDE_ID" THEN "r1" ELSE "P2"])

PdeFiles ==
    {NoPde, PdeBatch([c \in {"DESYNPUF_ID", "PDE_ID"} |-> "r1"])} \cup
    {PdeBatch(PdeBase @@ ids @@ provs) :
        ids \in Partial({"CLM_ID", "PDE_ID"}, {"r1"}),
        provs \in Partial({"PRVDR_ID", "PRSCRBR_ID", "PHRMCY_ID"},
                          {NullStr, "P2", "P3"})}

(* Carrier batches that vary in their provider columns *)
CarrierProviderFiles ==
    {BronzeFile("c3", p, [c \in {"CLM_PMT_AMT"} |-> Some(3)]) :
        p \in Partial({"PRVDR_NUM", "PRVDR_NPI"}, {NullStr, "P1", "P4"})}

----------------------------------------------------------------------------
(* run_pipeline (main.py)                                                  *)

(* The blocks of run_pipeline, in the order of the function body *)
StageOrder == <<"download", "convert", "transform", "analytics", "validate">>

StageNames == {StageOrder[i] : i \in 1..Len(StageOrder)}

(* "<name>" in steps *)
Selected(name, list) == \E i \in 1..Len(list) : list[i] = name

(* Variant: the outcome of the latest stage replaces the earlier ones *)
StageOutcomeOfLatest(success, ok) == ok

(* "if not run_<stage>(...): all_success = False" *)
StageOutcome(success, ok) == IF ~ok THEN FALSE ELSE success

(* The block that follows a block; "return" after the last one *)
StageAfter(name) ==
    IF name = "validate" THEN "return"
    ELSE StageOrder[(CHOOSE i \in 1..Len(StageOrder) : StageOrder[i] = name) + 1]

(* One "if <name> in steps:" block: the stage function is called and has   *)
(* returned True or False before the next block is reached; a stage that   *)
(* is not in the list is passed over.                                      *)
RunStage(name) ==
    /\ stage = name
    /\ IF Selected(name, steps)
         THEN \E ok \in BOOLEAN :
                 /\ stage_log' = Append(stage_log, [stage |-> name, ok |-> ok])
                 /\ all_success' = StageOutcome(all_success, ok)
         ELSE UNCHANGED <<stage_log, all_success>>
    /\ stage' = StageAfter(name)
    /\ UNCHANGED <<steps, pipeline_result>>
    /\ UNCHANGED <<pipevars, storevars, dimvars, convvars, benevars, apivars,
                   rxvars>>

run_download == RunStage("download")

run_conversion == RunStage("convert")

run_transformation == RunStage("transform")

run_analytics == RunStage("analytics")

run_validation == RunStage("validate")

(* "return all_success" *)
run_pipeline_return ==
    /\ stage = "return"
    /\ pipeline_result' = IF all_success THEN "True" ELSE "False"
    /\ stage' = "returned"
    /\ UNCHANGED <<steps, stage_log, all_success>>
    /\ UNCHANGED <<pipevars, storevars, dimvars, convvars, benevars, apivars,
                   rxvars>>

(* args.steps.split(","): any words in any order, repeated or not; "all"   *)
(* gives the five names.                                                   *)
StepWords == StageNames \cup {"report"}

StepLists ==
    UNION {[1..n -> StepWords] : n \in 0..MaxSteps}
       \cup {StageOrder,
             <<"validate", "analytics", "transform", "convert", "download">>}

(* The lines of claim c1 with payment pay: the code of the first slot, and *)
(* a second slot that is empty, repeats that code or holds another code.   *)
(* Every line of a claim carries the payment of the claim.                 *)
SlotLines(pay) ==
    {{DiagLine("B1", 2008, "c1", DiagCodes[1], 1, pay)} \cup second :
        second \in {{}} \cup {{DiagLine("B1", 2008, "c1", DiagCodes[c], 2, pay)} :
                                 c \in {1, 2}}}

SlotTables ==
    {Table(l \cup s) :
        l \in UNION {SlotLines(pay) : pay \in {Null} \cup {Some(v) : v \in 0..MaxPay}},
        s \in SecondClaimLines}

(* The gold root an earlier complete run of create_all_analytics left      *)
(* behind, computed from the silver tables that run read: nothing where    *)
(* its step returned early.                                                *)
MetricsLeftBy(bene, claims, rx) ==
    IF bene.present /\ ~MetricsRaises(claims, rx)
    THEN WriteByYearSeq([y \in Years |-> NoFileSeq],
                        MetricsFrame(bene.rows, claims, rx))
    ELSE [y \in Years |-> NoFileSeq]

TopLeftBy(diag) ==
    IF diag.present
    THEN WriteByYear([y \in Years |-> NoFile], TopDiagnoses(diag.rows))
    ELSE [y \in Years |-> NoFile]

ViewLeftBy(metrics, diagnoses) ==
    LET none == [y \in Years |->
                    [patient_metrics |-> NoFile, patient_diagnoses |-> NoFile]]
    IN IF ApiViewInputsPresent(metrics, diagnoses)
       THEN WriteApiView(none, GoldRowSet(metrics), ReadGold(diagnoses).rows)
       ELSE none

(* Diagnosis lines of the year 2009 only *)
DiagLater ==
    Table({DiagLine("B1", 2009, "c3", DiagCodes[2], 1, Some(100))})

----------------------------------------------------------------------------
(* Specifications                                                          *)

(* The files found for each claim kind *)
Bronze(i, o, c) == [inpatient |-> i, outpatient |-> o, carrier |-> c]

NoBronze == Bronze(<<>>, <<>>, <<>>)

(* No partitioned table under observation *)
InitStoreIdle ==
    /\ partitioning = "year_prefix"
    /\ root_found = MissingRoot("year_prefix")
    /\ table_root = MissingRoot("year_prefix")
    /\ combined = <<>>
    /\ read_result = Unread
    /\ run_no = "none"

(* No provider dimension under observation *)
InitDimIdle ==
    /\ provider_src = <<>>
    /\ dim_provider = Absent
    /\ dim_provider_first = Absent

(* No CSV file under conversion *)
InitConvIdle ==
    /\ csv_file = NoCsv
    /\ bronze_batch = NotConverted
    /\ csv_columns = {}
    /\ bronze_columns = {}

(* No beneficiary batch under observation *)
InitBeneIdle ==
    /\ bene_bronze = NoBeneficiaryBatch

(* No request made of the server *)
InitApiIdle ==
    /\ request = NoRequest
    /\ response = NotFound
    /\ response_first = NotFound
    /\ serve_no = "none"

(* No prescription batch under observation *)
InitRxIdle ==
    /\ pde_batch = NoPde
    /\ rx_outcome = "pending"

(* run_pipeline not under observation *)
InitRunIdle ==
    /\ steps = <<>>
    /\ stage = "idle"
    /\ stage_log = <<>>
    /\ all_success = TRUE
    /\ pipeline_result = "none"

InitLateIdle ==
    /\ InitBeneIdle
    /\ InitApiIdle
    /\ InitRxIdle
    /\ InitRunIdle

(* The state when run_analytics has constructed the builder over an empty  *)
(* gold root.                                                              *)
InitGold ==
    /\ member_year_metrics = [y \in Years |-> NoFileSeq]
    /\ top_diagnoses_by_member = [y \in Years |-> NoFile]
    /\ patient_api_view =
          [y \in Years |-> [patient_metrics |-> NoFile, patient_diagnoses |-> NoFile]]
    /\ pc = "metrics"
    /\ outcome = [metrics |-> "pending", top |-> "pending", api |-> "pending",
                  claims |-> "pending", diagnoses |-> "pending"]
    /\ result = "none"
    /\ bronze = NoBronze

InitCounts ==
    /\ dim_beneficiary = BeneFixed
    /\ fact_claims \in CountClaimTables \cup {Absent}
    /\ fact_prescription \in {Absent, RxFixed}
    /\ fact_claim_diagnoses = DiagFixed

InitProviders ==
    /\ dim_beneficiary = BeneFixed
    /\ fact_claims \in ProviderClaimTables \cup {Absent}
    /\ fact_prescription \in ProviderRxTables \cup {Absent}
    /\ fact_claim_diagnoses = DiagFixed

InitRx ==
    /\ dim_beneficiary = BeneFixed
    /\ fact_claims \in {Absent, ClaimsFixed}
    /\ fact_prescription \in RxTables \cup {Absent}
    /\ fact_claim_diagnoses = DiagFixed

InitSources ==
    /\ dim_beneficiary \in BeneTables
    /\ fact_claims \in {Absent, ClaimsFixed, ClaimsNoCarrier}
    /\ fact_prescription \in {Absent, RxFixed}
    /\ fact_claim_diagnoses \in {Absent, DiagFixed}

InitMetrics ==
    /\ InitGold
    /\ InitLateIdle
    /\ InitStoreIdle
    /\ InitDimIdle
    /\ InitConvIdle
    /\ InitCounts \/ InitProviders \/ InitRx \/ InitSources

InitTop ==
    /\ InitGold
    /\ InitLateIdle
    /\ InitStoreIdle
    /\ InitDimIdle
    /\ InitConvIdle
    /\ dim_beneficiary = BeneFixed
    /\ fact_claims = ClaimsFixed
    /\ fact_prescription = RxFixed
    /\ fact_claim_diagnoses \in DiagTables

(* The state when transform_all reaches create_fact_claims over an empty  *)
(* silver root.                                                            *)
InitSilver ==
    /\ dim_beneficiary = BeneFixed
    /\ fact_claims = Absent
    /\ fact_prescription = Absent
    /\ fact_claim_diagnoses = Absent
    /\ member_year_metrics = [y \in Years |-> NoFileSeq]
    /\ top_diagnoses_by_member = [y \in Years |-> NoFile]
    /\ patient_api_view =
          [y \in Years |-> [patient_metrics |-> NoFile, patient_diagnoses |-> NoFile]]
    /\ pc = "claims"
    /\ outcome = [metrics |-> "pending", top |-> "pending", api |-> "pending",
                  claims |-> "pending", diagnoses |-> "pending"]
    /\ result = "none"

(* Batches that vary in their provider and amount columns *)
InitClaims ==
    /\ InitSilver
    /\ InitLateIdle
    /\ InitStoreIdle
    /\ InitDimIdle
    /\ InitConvIdle
    /\ \/ \E c \in OneOrNone(CarrierFiles),
             i \in OneOrNone({FacilityFixed("c1")}),
             o \in OneOrNone({FacilityFixed("c2")}) : bronze = Bronze(i, o, c)
       \/ \E c \in OneOrNone({CarrierFixed}),
             i \in OneOrNone(FacilityFiles("c1")),
             o \in OneOrNone(FacilityFiles("c2")) : bronze = Bronze(i, o, c)

(* Batches that vary in their diagnosis columns *)
InitDiagnoses ==
    /\ InitSilver
    /\ InitLateIdle
    /\ InitStoreIdle
    /\ InitDimIdle
    /\ InitConvIdle
    /\ \E i \in OneOrNone(FacilityDiagFiles("c1")),
          o \in OneOrNone({FacilityFixed("c2")}),
          c \in OneOrNone(CarrierDiagFiles) : bronze = Bronze(i, o, c)

(* transform_all: create_fact_claims, then create_fact_claim_diagnoses *)
NextClaims ==
    \/ create_fact_claims
    \/ create_fact_claim_diagnoses

SpecClaims == InitClaims /\ [][NextClaims]_vars

SpecDiagnoses == InitDiagnoses /\ [][NextClaims]_vars

(* run_analytics: create_all_analytics runs the three steps in order *)
NextAnalytics ==
    \/ create_member_year_metrics
    \/ create_top_diagnoses
    \/ create_patient_api_view

SpecMetrics == InitMetrics /\ [][NextAnalytics]_vars

SpecTop == InitTop /\ [][NextAnalytics]_vars

(* A run of the step that produces the table writes its frame *)
write_partitions ==
    /\ run_no \in {"none", "first"}
    /\ \E f \in Frames :
          /\ table_root' = WritePartitions(table_root, f, partitioning)
          /\ combined' = f
    /\ run_no' = IF run_no = "none" THEN "first" ELSE "later"
    /\ read_result' = Unread
    /\ UNCHANGED <<partitioning, root_found, pipevars, dimvars, convvars,
                   latevars>>

(* A later step reads the logical table *)
read_complete_table ==
    /\ read_result = Unread
    /\ read_result' = ReadCompleteTable(table_root)
    /\ UNCHANGED <<partitioning, root_found, table_root, combined, run_no,
                   pipevars, dimvars, convvars, latevars>>

InitStore ==
    /\ InitSilver
    /\ InitLateIdle
    /\ InitDimIdle
    /\ InitConvIdle
    /\ bronze = NoBronze
    /\ partitioning \in {"year", "year_prefix"}
    /\ table_root \in FoundRoots(partitioning)
    /\ root_found = table_root
    /\ combined = <<>>
    /\ read_result = Unread
    /\ run_no = "none"

NextStore ==
    \/ write_partitions
    \/ read_complete_table

SpecStore == InitStore /\ [][NextStore]_vars

InitProvider ==
    /\ InitSilver
    /\ InitLateIdle
    /\ InitStoreIdle
    /\ InitConvIdle
    /\ bronze = NoBronze
    /\ provider_src \in SeqsUpTo(ProviderObservations, MaxObs)
    /\ dim_provider = Absent
    /\ dim_provider_first = Absent

NextProvider == create_dim_provider

SpecProvider == InitProvider /\ [][NextProvider]_vars

InitConvert ==
    /\ InitSilver
    /\ InitStoreIdle
    /\ InitDimIdle
    /\ bronze = NoBronze
    /\ csv_file \in IdFiles \cup DateFiles \cup BeneficiaryFiles
    /\ csv_columns = HeaderOf(csv_file)
    /\ bronze_batch = NotConverted
    /\ bronze_columns = {}
    /\ InitLateIdle

NextConvert == convert_file

SpecConvert == InitConvert /\ [][NextConvert]_vars

(* The state when the conversion stage is given one file and the silver    *)
(* and gold roots are empty.                                               *)
InitRaw ==
    /\ dim_beneficiary = AbsentSeq
    /\ fact_claims = Absent
    /\ fact_prescription = Absent
    /\ fact_claim_diagnoses = Absent
    /\ bronze = NoBronze
    /\ member_year_metrics = [y \in Years |-> NoFileSeq]
    /\ top_diagnoses_by_member = [y \in Years |-> NoFile]
    /\ patient_api_view =
          [y \in Years |-> [patient_metrics |-> NoFile, patient_diagnoses |-> NoFile]]
    /\ pc = "beneficiary"
    /\ outcome = [metrics |-> "pending", top |-> "pending", api |-> "pending",
                  claims |-> "pending", diagnoses |-> "pending"]
    /\ result = "none"

(* Files that vary in their header *)
InitSchema ==
    /\ InitRaw
    /\ InitStoreIdle
    /\ InitDimIdle
    /\ InitLateIdle
    /\ \E k \in DOMAIN SchemaFile :
          /\ csv_file = SchemaFile[k]
          /\ csv_columns \in Headers(k)
    /\ bronze_batch = NotConverted
    /\ bronze_columns = {}

(* run_conversion, then the first step of run_transformation *)
NextSchema ==
    \/ convert_file
    \/ create_dim_beneficiary

SpecSchema == InitSchema /\ [][NextSchema]_vars

(* The state when run_transformation starts over a bronze root that holds  *)
(* a beneficiary batch; the fact tables are taken as the later steps of    *)
(* transform_all write them.                                               *)
InitServe ==
    /\ dim_beneficiary = AbsentSeq
    /\ fact_claims = ClaimsFixed
    /\ fact_prescription = RxFixed
    /\ bronze = NoBronze
    /\ member_year_metrics = [y \in Years |-> NoFileSeq]
    /\ top_diagnoses_by_member = [y \in Years |-> NoFile]
    /\ patient_api_view =
          [y \in Years |-> [patient_metrics |-> NoFile, patient_diagnoses |-> NoFile]]
    /\ pc = "beneficiary"
    /\ outcome = [metrics |-> "pending", top |-> "pending", api |-> "pending",
                  claims |-> "pending", diagnoses |-> "pending"]
    /\ result = "none"
    /\ InitStoreIdle
    /\ InitDimIdle
    /\ InitConvIdle
    /\ InitApiIdle
    /\ InitRxIdle
    /\ InitRunIdle
    /\ \/ /\ bene_bronze \in BeneBatches
          /\ fact_claim_diagnoses \in {Absent, DiagFixed}
       \/ /\ bene_bronze = BeneBatchFixed
          /\ fact_claim_diagnoses \in ServedDiagTables

(* run_transformation, run_analytics, then requests to the server *)
NextServe ==
    \/ create_dim_beneficiary
    \/ create_member_year_metrics
    \/ create_top_diagnoses
    \/ create_patient_api_view
    \/ get_patient_year_data

SpecServe == InitServe /\ [][NextServe]_vars

(* The state when transform_all reaches create_dim_provider *)
InitProviderIds ==
    /\ dim_beneficiary = BeneFixed
    /\ fact_claims = Absent
    /\ fact_prescription = Absent
    /\ fact_claim_diagnoses = Absent
    /\ member_year_metrics = [y \in Years |-> NoFileSeq]
    /\ top_diagnoses_by_member = [y \in Years |-> NoFile]
    /\ patient_api_view =
          [y \in Years |-> [patient_metrics |-> NoFile, patient_diagnoses |-> NoFile]]
    /\ pc = "provider"
    /\ outcome = [metrics |-> "pending", top |-> "pending", api |-> "pending",
                  claims |-> "pending", diagnoses |-> "pending"]
    /\ result = "none"
    /\ InitStoreIdle
    /\ InitDimIdle
    /\ InitConvIdle
    /\ InitBeneIdle
    /\ InitApiIdle
    /\ InitRunIdle
    /\ rx_outcome = "pending"
    /\ \/ /\ pde_batch \in PdeFiles
          /\ bronze = Bronze(<<FacilityFixed("c1")>>, <<>>, <<>>)
       \/ /\ pde_batch = PdeFixed
          /\ \E c \in OneOrNone(CarrierProviderFiles),
                i \in OneOrNone({FacilityFixed("c1")}) : bronze = Bronze(i, <<>>, c)

(* transform_all after create_dim_beneficiary *)
NextProviderIds ==
    \/ create_dim_provider
    \/ create_fact_claims
    \/ create_fact_claim_diagnoses
    \/ create_fact_prescription

SpecProviderIds == InitProviderIds /\ [][NextProviderIds]_vars

(* The state when run_pipeline has set up the directories and set         *)
(* all_success = True.                                                     *)
InitPipeline ==
    /\ dim_beneficiary = AbsentSeq
    /\ fact_claims = Absent
    /\ fact_prescription = Absent
    /\ fact_claim_diagnoses = Absent
    /\ bronze = NoBronze
    /\ member_year_metrics = [y \in Years |-> NoFileSeq]
    /\ top_diagnoses_by_member = [y \in Years |-> NoFile]
    /\ patient_api_view =
          [y \in Years |-> [patient_metrics |-> NoFile, patient_diagnoses |-> NoFile]]
    /\ pc = "done"
    /\ outcome = [metrics |-> "pending", top |-> "pending", api |-> "pending",
                  claims |-> "pending", diagnoses |-> "pending"]
    /\ result = "none"
    /\ InitStoreIdle
    /\ InitDimIdle
    /\ InitConvIdle
    /\ InitBeneIdle
    /\ InitApiIdle
    /\ InitRxIdle
    /\ steps \in StepLists
    /\ stage = "download"
    /\ stage_log = <<>>
    /\ all_success = TRUE
    /\ pipeline_result = "none"

NextPipeline ==
    \/ run_download
    \/ run_conversion
    \/ run_transformation
    \/ run_analytics
    \/ run_validation
    \/ run_pipeline_return

SpecPipeline == InitPipeline /\ [][NextPipeline]_vars

(* The state when run_analytics starts over a fact_claim_diagnoses table   *)
(* that create_fact_claim_diagnoses wrote for claims with two slots.       *)
InitSpend ==
    /\ InitGold
    /\ InitLateIdle
    /\ InitStoreIdle
    /\ InitDimIdle
    /\ InitConvIdle
    /\ dim_beneficiary = BeneFixed
    /\ fact_claims = ClaimsFixed
    /\ fact_prescription = RxFixed
    /\ fact_claim_diagnoses \in SlotTables

SpecSpend == InitSpend /\ [][NextAnalytics]_vars

(* The state when run_analytics constructs the builder over a gold root    *)
(* that an earlier run has written, after the silver tables have changed.  *)
InitRerun ==
    /\ \E bene \in {AbsentSeq, BeneFixed}, diag \in {Absent, DiagFixed, DiagLater} :
          /\ member_year_metrics = MetricsLeftBy(bene, ClaimsFixed, RxFixed)
          /\ top_diagnoses_by_member = TopLeftBy(diag)
          /\ patient_api_view =
                ViewLeftBy(MetricsLeftBy(bene, ClaimsFixed, RxFixed), TopLeftBy(diag))
    /\ dim_beneficiary \in BeneTables
    /\ fact_claims = ClaimsFixed
    /\ fact_prescription = RxFixed
    /\ fact_claim_diagnoses \in {Absent, DiagFixed, DiagLater}
    /\ bronze = NoBronze
    /\ pc = "metrics"
    /\ outcome = [metrics |-> "pending", top |-> "pending", api |-> "pending",
                  claims |-> "pending", diagnoses |-> "pending"]
    /\ result = "none"
    /\ InitLateIdle
    /\ InitStoreIdle
    /\ InitDimIdle
    /\ InitConvIdle

SpecRerun == InitRerun /\ [][NextAnalytics]_vars

----------------------------------------------------------------------------
(* Properties of create_member_year_metrics                                *)

MetricsRows == GoldRowSet(member_year_metrics)

(* Rows of a silver fact table of one patient-year ({} without the table) *)
RowsOf(tbl, b, y) == {x \in tbl.rows : SameKey(x, b, y)}

UtilizationSum(r) == r.inpatient_stays + r.outpatient_visits + r.carrier_claims

(* C1 as stated: in every row of member_year_metrics the three             *)
(* utilization counts add up to the number of distinct claim_id values of  *)
(* that patient-year in fact_claims.                                       *)
C1_SumIsDistinctClaimIds ==
    \A r \in MetricsRows :
        UtilizationSum(r) =
            Cardinality({x.claim_id : x \in RowsOf(fact_claims, r.bene_id, r.year)})

(* C1 amended: in every row of member_year_metrics the three utilization   *)
(* counts add up to the number of distinct (claim_type, claim_id) pairs of *)
(* that patient-year in fact_claims; a claim_id that occurs under two      *)
(* claim types is counted once per type.                                   *)
C1_SumIsDistinctTypedClaimIds ==
    \A r \in MetricsRows :
        UtilizationSum(r) =
            Cardinality({<<x.claim_type, x.claim_id>> :
                            x \in RowsOf(fact_claims, r.bene_id, r.year)})

(* A written row of a patient-year in which one claim_id occurs under two  *)
(* claim types.                                                            *)
C1_Witness ==
    /\ outcome.metrics = "written"
    /\ \E r \in MetricsRows :
          \E x, z \in RowsOf(fact_claims, r.bene_id, r.year) :
              x.claim_id = z.claim_id /\ x.claim_type # z.claim_type

(* The utilization column of a claim kind *)
KindColumn(r, t) ==
    CASE t = "inpatient" -> r.inpatient_stays
      [] t = "outpatient" -> r.outpatient_visits
      [] t = "carrier" -> r.carrier_claims

(* C3: with fact_claims present the operation succeeds and every           *)
(* beneficiary row without a claim of some kind has 0 in the column of     *)
(* that kind, also when the table holds no claim of that kind at all.      *)
C3_MissingKindIsZero ==
    (pc # "metrics" /\ dim_beneficiary.present /\ fact_claims.present) =>
        /\ outcome.metrics = "written"
        /\ \A i \in 1..Len(dim_beneficiary.rows) :
              LET b == dim_beneficiary.rows[i] IN
              \E r \in MetricsRows :
                  /\ r.bene_id = b.bene_id /\ r.year = b.year
                  /\ \A t \in ClaimTypes :
                        ({x \in RowsOf(fact_claims, b.bene_id, b.year) :
                             x.claim_type = t} = {}) => KindColumn(r, t) = 0

(* Non-null, non-empty provider ids of one patient-year of a fact table *)
ProviderIds(tbl, b, y) ==
    {x.provider_id : x \in RowsOf(tbl, b, y)} \ {NullStr, ""}

(* C4: with fact_claims and fact_prescription both present, every row's    *)
(* unique_providers is the size of the union of the provider ids of the    *)
(* patient-year's claims and prescriptions.                                *)
C4_UniqueProvidersIsUnion ==
    (fact_claims.present /\ fact_prescription.present) =>
        \A r \in MetricsRows :
            r.unique_providers =
                Cardinality(ProviderIds(fact_claims, r.bene_id, r.year)
                            \cup ProviderIds(fact_prescription, r.bene_id, r.year))

(* A written row whose patient-year has a provider in both sources and     *)
(* another provider besides.                                               *)
C4_Witness ==
    /\ outcome.metrics = "written"
    /\ fact_claims.present /\ fact_prescription.present
    /\ \E r \in MetricsRows :
          /\ ProviderIds(fact_claims, r.bene_id, r.year)
                \cap ProviderIds(fact_prescription, r.bene_id, r.year) # {}
          /\ r.unique_providers >= 2

(* C5: in every row, the providers that occur only on the patient-year's   *)
(* prescriptions are counted in unique_providers on top of the claims'     *)
(* providers, with or without a fact_claims table.                         *)
C5_RxOnlyProviderCounted ==
    \A r \in MetricsRows :
        r.unique_providers >=
            Cardinality(ProviderIds(fact_claims, r.bene_id, r.year))
            + Cardinality(ProviderIds(fact_prescription, r.bene_id, r.year)
                          \ ProviderIds(fact_claims, r.bene_id, r.year))

(* C6: every row's rx_fills is the number of distinct prescription_id      *)
(* values of the patient-year in fact_prescription, 0 when it has none or  *)
(* when the table is absent.                                               *)
C6_RxFillsIsDistinctPrescriptions ==
    \A r \in MetricsRows :
        r.rx_fills =
            Cardinality({x.prescription_id :
                            x \in RowsOf(fact_prescription, r.bene_id, r.year)})

(* Written rows of which one has two fills and another has none *)
C6_Witness ==
    /\ outcome.metrics = "written"
    /\ fact_prescription.present
    /\ \E r, q \in MetricsRows : r.rx_fills = 2 /\ q.rx_fills = 0

(* The metrics table holds one row per beneficiary row, in the same order *)
OneRowPerBeneficiary ==
    \A y \in Years :
        LET b == RowsOfYear(dim_beneficiary.rows, y)
            m == member_year_metrics[y].rows
        IN /\ Len(m) = Len(b)
           /\ \A i \in 1..Len(b) : m[i].bene_id = b[i].bene_id /\ m[i].year = y

(* C7: with dim_beneficiary present, the operation succeeds whenever       *)
(* fact_claims is absent (one row per beneficiary row, the three counts 0) *)
(* and whenever fact_prescription is absent (the rows with rx_fills 0).    *)
C7_OptionalSourceNeverFatal ==
    (pc # "metrics" /\ dim_beneficiary.present) =>
        /\ ~fact_claims.present =>
              /\ outcome.metrics = "written"
              /\ OneRowPerBeneficiary
              /\ \A r \in MetricsRows : UtilizationSum(r) = 0
        /\ ~fact_prescription.present =>
              /\ outcome.metrics = "written"
              /\ OneRowPerBeneficiary
              /\ \A r \in MetricsRows : r.rx_fills = 0

(* C8: an absent mandatory input ends the operation in an error and        *)
(* run_analytics returns False: dim_beneficiary for                        *)
(* create_member_year_metrics, the two gold tables for                     *)
(* create_patient_api_view.                                                *)
C8_MissingMandatoryInputIsFatal ==
    /\ (pc # "metrics" /\ ~dim_beneficiary.present) => outcome.metrics = "raised"
    /\ (pc = "done" /\ ~dim_beneficiary.present) => result = "False"
    /\ (pc = "done" /\ outcome.api # "pending"
          /\ ~ApiViewInputsPresent(member_year_metrics, top_diagnoses_by_member))
        => (outcome.api = "raised" /\ result = "False")

----------------------------------------------------------------------------
(* Properties of create_top_diagnoses                                      *)

TopRows == ReadGold(top_diagnoses_by_member).rows

(* The aggregated (patient, year, diagnosis code) rows of the input *)
Spend == DiagnosisSpend(fact_claim_diagnoses.rows)

SameDiagnosis(r, q) ==
    /\ r.bene_id = q.bene_id /\ r.year = q.year
    /\ r.diagnosis_code = q.diagnosis_code
    /\ r.diagnosis_payment = q.diagnosis_payment

RanksIn(top, b, y) == {r.diagnosis_rank : r \in {x \in top : SameKey(x, b, y)}}

(* The distinct payments of the patient-year of q that exceed q's *)
LargerPayments(spend, q) ==
    {x.diagnosis_payment :
        x \in {z \in spend : SameKey(z, q.bene_id, q.year)
                             /\ z.diagnosis_payment > q.diagnosis_payment}}

(* C2: in every patient-year of top_diagnoses_by_member the ranks are      *)
(* dense over the payment in descending order (equal payments share a      *)
(* rank, a smaller payment has a larger rank, the ranks used are 1..R      *)
(* without a gap and R <= K), every emitted row is an aggregated row, and  *)
(* an aggregated row is left out only if at least K distinct larger        *)
(* payments exist in its patient-year: ties are never cut to K rows.       *)
C2_DenseRankCutoff ==
    outcome.top = "written" =>
        LET top == TopRows
            spend == Spend
        IN /\ \A r \in top : \E q \in spend : SameDiagnosis(r, q)
           /\ \A r, q \in top :
                 SameKey(q, r.bene_id, r.year) =>
                    /\ (r.diagnosis_payment = q.diagnosis_payment)
                          <=> (r.diagnosis_rank = q.diagnosis_rank)
                    /\ (r.diagnosis_payment > q.diagnosis_payment)
                          => (r.diagnosis_rank < q.diagnosis_rank)
           /\ \A r \in top :
                 \E R \in 1..K : RanksIn(top, r.bene_id, r.year) = 1..R
           /\ \A q \in spend :
                 (~\E r \in top : SameDiagnosis(r, q))
                    => Cardinality(LargerPayments(spend, q)) >= K

(* The ranks 1,1,2,3,3,4 of six codes of one patient-year, all emitted *)
C2_Witness ==
    /\ outcome.top = "written"
    /\ \E r \in TopRows :
          LET g == {x \in TopRows : SameKey(x, r.bene_id, r.year)} IN
          /\ Cardinality(g) = 6
          /\ RanksIn(g, r.bene_id, r.year) = 1..4
          /\ Cardinality({x \in g : x.diagnosis_rank = 1}) = 2
          /\ Cardinality({x \in g : x.diagnosis_rank = 3}) = 2

----------------------------------------------------------------------------
(* Properties of create_fact_claims                                        *)

(* The rows emitted for a bronze file of a kind *)
ClaimsOf(f, k) ==
    {r \in fact_claims.rows : r.claim_type = k /\ r.claim_id = f.CLM_ID}

PresentLines(f, lines) == {lines[n] : n \in 1..Len(lines)} \cap Columns(f)

(* C9: a carrier claim of a file without CLM_PMT_AMT whose line-level      *)
(* payment columns (those the file has) are all null is emitted with       *)
(* medicare_payment exactly 0.                                             *)
C9_AllNullLinesPayZero ==
    outcome.claims = "written" =>
        \A i \in 1..Len(bronze["carrier"]) :
            LET f == bronze["carrier"][i] IN
            ("CLM_PMT_AMT" \notin Columns(f)
               /\ \A c \in PresentLines(f, LINE_PMT_COLS) : f.amounts[c] = Null)
            => /\ ClaimsOf(f, "carrier") # {}
               /\ \A r \in ClaimsOf(f, "carrier") : r.medicare_payment = Some(0)

RECURSIVE SumOfColumns(_, _)
SumOfColumns(f, cols) ==
    IF cols = {} THEN Some(0)
    ELSE LET c == CHOOSE x \in cols : TRUE IN
         IF cols = {c} THEN f.amounts[c]
         ELSE AddCells(f.amounts[c], SumOfColumns(f, cols \ {c}))

(* The candidate columns of the logical fields of each claim kind *)
ProviderCandidates(k) ==
    IF k = "carrier" THEN <<"PRVDR_NUM", "PRVDR_NPI">> ELSE <<"PRVDR_NUM">>

ThirdPartyAggregate(k) ==
    IF k = "carrier" THEN "CLM_OP_PRVDR_PMT_AMT" ELSE "NCH_PRMRY_PYR_CLM_PD_AMT"

LineColumns(k, lines) == IF k = "carrier" THEN lines ELSE <<>>

(* The resolution order: aggregate column, else line-level sum, else 0 *)
ResolvedAmount(f, aggregate, lines) ==
    IF aggregate \in Columns(f) THEN f.amounts[aggregate]
    ELSE SumOfColumns(f, PresentLines(f, lines))

(* The first candidate the file has, else the "Unknown" token *)
ResolvedProvider(f, k) ==
    LET c == ProviderCandidates(k)
        here == {n \in 1..Len(c) : c[n] \in Columns(f)}
    IN IF here = {} THEN "Unknown"
       ELSE f.providers[c[CHOOSE n \in here : \A m \in here : n <= m]]

(* C10: create_fact_claims never fails on a batch that lacks a field's     *)
(* candidate columns, and every claim of every kind is emitted with each   *)
(* field resolved in the order aggregate column, line-level sum,           *)
(* placeholder (0 for amounts, "Unknown" for the provider id).             *)
C10_ResolutionNeverFatal ==
    pc # "claims" =>
        /\ outcome.claims # "raised"
        /\ \A k \in ClaimTypes : \A i \in 1..Len(bronze[k]) :
              LET f == bronze[k][i] IN
              /\ ClaimsOf(f, k) # {}
              /\ \A r \in ClaimsOf(f, k) :
                    /\ r.provider_id = ResolvedProvider(f, k)
                    /\ r.medicare_payment =
                          ResolvedAmount(f, "CLM_PMT_AMT",
                                         LineColumns(k, LINE_PMT_COLS))
                    /\ r.third_party_payment =
                          ResolvedAmount(f, ThirdPartyAggregate(k),
                                         LineColumns(k, LINE_PRVDR_PMT_COLS))

(* C11: every row of fact_claims has a claim_type among inpatient,         *)
(* outpatient and carrier, patient_payment = 0, and total_payment equal to *)
(* medicare_payment + third_party_payment + patient_payment: the sum of    *)
(* the three amounts, and null exactly when one of them is null.           *)
C11_ClaimRowInvariant ==
    \A r \in fact_claims.rows :
        /\ r.claim_type \in {"inpatient", "outpatient", "carrier"}
        /\ r.patient_payment = Some(0)
        /\ IF Null \in {r.medicare_payment, r.third_party_payment, r.patient_payment}
           THEN r.total_payment = Null
           ELSE r.total_payment =
                   Some(CellValue(r.medicare_payment)
                        + CellValue(r.third_party_payment)
                        + CellValue(r.patient_payment))

(* A written table with a claim of every kind, one of which has a program  *)
(* and a third-party amount that both count in its total.                  *)
C11_Witness ==
    /\ outcome.claims = "written"
    /\ \A k \in ClaimTypes : \E r \in fact_claims.rows : r.claim_type = k
    /\ \E r \in fact_claims.rows :
          /\ r.claim_type = "carrier"
          /\ r.medicare_payment = Some(6)
          /\ r.third_party_payment = Some(3)
          /\ r.total_payment = Some(9)

(* C14: a claim kind without files contributes no row and is no error      *)
(* (the claims of the other kinds are written), and when no kind has a     *)
(* file create_fact_claims fails with an error that makes                  *)
(* run_transformation return False.                                        *)
C14_ZeroClaimsIsFatal ==
    pc # "claims" =>
        /\ \A k \in ClaimTypes :
              Len(bronze[k]) = 0 =>
                 /\ \A r \in fact_claims.rows : r.claim_type # k
                 /\ ((\E j \in ClaimTypes : Len(bronze[j]) > 0)
                       /\ ~\E j \in FacilityKinds : \E i \in 1..Len(bronze[j]) :
                              FacilitySelectRaises(bronze[j][i]))
                    => outcome.claims = "written"
        /\ (\A k \in ClaimTypes : Len(bronze[k]) = 0) =>
              /\ outcome.claims = "raised"
              /\ pc = "done" => result = "False"

----------------------------------------------------------------------------
(* Properties of create_fact_claim_diagnoses                               *)

(* The diagnosis lines emitted for a bronze file of a kind *)
LinesOf(f, k) ==
    {d \in fact_claim_diagnoses.rows : d.claim_type = k /\ d.claim_id = f.CLM_ID}

(* The populated diagnosis columns of slot s of a batch *)
PopulatedColumns(f, s) ==
    {c \in DOMAIN f.codes : c[2] = s /\ Populated(f.codes[c])}

(* C12: for every source claim and every diagnosis slot k with a non-null, *)
(* non-empty code exactly one line is emitted with diagnosis_position = k, *)
(* carrying that code; a slot that is null, empty or not a column of the   *)
(* batch has no line.  This covers batches that lack lower-numbered slot   *)
(* columns or have both the ICD9_DGNS_CD_k and the DGNS_CD_k column.       *)
C12_OneLinePerPopulatedSlot ==
    outcome.diagnoses # "pending" =>
        \A k \in ClaimTypes : \A i \in 1..Len(bronze[k]) :
            LET f == bronze[k][i] IN
            \A s \in 1..LastSlot :
                LET at == {d \in LinesOf(f, k) : d.diagnosis_position = s} IN
                IF PopulatedColumns(f, s) = {} THEN at = {}
                ELSE /\ Cardinality(at) = 1
                     /\ \A d \in at :
                           \E c \in PopulatedColumns(f, s) :
                               d.diagnosis_code = f.codes[c]

(* C13: every claim of fact_claims whose batch has a populated diagnosis   *)
(* slot has lines in fact_claim_diagnoses, and each of them carries the    *)
(* medicare_payment the claim has in fact_claims.                          *)
C13_LinesCarryClaimPayment ==
    outcome.diagnoses # "pending" =>
        \A k \in ClaimTypes : \A i \in 1..Len(bronze[k]) :
            LET f == bronze[k][i] IN
            (\E s \in 1..LastSlot : PopulatedColumns(f, s) # {}) =>
                \A r \in ClaimsOf(f, k) :
                    /\ LinesOf(f, k) # {}
                    /\ \A d \in LinesOf(f, k) : d.payment = r.medicare_payment

----------------------------------------------------------------------------
(* Properties of the partitioned store                                     *)

(* How often a row occurs in a frame *)
Occurrences(rows, r) == Cardinality({i \in 1..Len(rows) : rows[i] = r})

SameMultiset(a, b) ==
    \A r \in SeqRange(a) \cup SeqRange(b) : Occurrences(a, r) = Occurrences(b, r)

(* C15: a frame written partitioned by (year, bene_id_prefix) or by (year) *)
(* into a root that held no file is read back by _read_complete_table as   *)
(* the same multiset of rows.                                              *)
C15_RoundTrip ==
    (Discovered(root_found) = {} /\ run_no = "first"
       /\ read_result # Unread)
    => /\ read_result.status = "frame"
       /\ SameMultiset(read_result.rows, combined)

(* A frame with the same row twice, read back after the first write into a *)
(* root without files; and one with rows of two partitions.                *)
C15_Witness ==
    /\ Discovered(root_found) = {} /\ run_no = "first"
    /\ read_result.status = "frame"
    /\ Len(combined) = 2
    /\ combined[1] = combined[2]

(* C16: after any sequence of runs on the same root, reading the logical   *)
(* table yields exactly the rows of the most recent run, also when an      *)
(* earlier run wrote a partition the latest run did not produce.           *)
C16_LatestRunOnly ==
    (run_no # "none" /\ read_result # Unread
       /\ \A k \in Discovered(table_root) : table_root.files[k].readable)
    => /\ read_result.status = "frame"
       /\ SameMultiset(read_result.rows, combined)

(* C17: _read_complete_table returns None exactly when no partition file   *)
(* is discovered beneath the root (or the root is missing); otherwise it   *)
(* returns the rows of every discovered file, omitting none.               *)
C17_NoneIffNoFiles ==
    read_result # Unread =>
        /\ (read_result.status = "none") <=> (Discovered(table_root) = {})
        /\ read_result.status = "frame" =>
              /\ \A k \in Discovered(table_root) : table_root.files[k].readable
              /\ SameMultiset(read_result.rows,
                              ConcatFiles(table_root, Discovered(table_root)))

----------------------------------------------------------------------------
(* Properties of create_dim_provider                                       *)

----------------------------------------------------------------------------
(* Properties of convert_file                                              *)

(* C19: the bene_id_prefix of every row is the first two characters of its *)
(* patient identifier when that has at least two characters, and "00" when *)
(* the identifier is null or shorter than two characters.                  *)
C19_PrefixOrDefault ==
    bronze_batch.written =>
        \A i \in 1..Len(bronze_batch.rows) :
            LET r == bronze_batch.rows[i] IN
            IF r.DESYNPUF_ID # NullCode /\ Len(r.DESYNPUF_ID) >= 2
            THEN r.bene_id_prefix = SubSeq(r.DESYNPUF_ID, 1, 2)
            ELSE r.bene_id_prefix = <<"0", "0">>

(* C20: all rows of a batch get one year: for a beneficiary file a 4-digit *)
(* part of its name, for a file of another kind a most frequent year       *)
(* prefix among all rows of its date column.                               *)
C20_YearOfBatch ==
    bronze_batch.written =>
        /\ \A i \in 1..Len(bronze_batch.rows) :
              bronze_batch.rows[i].year = bronze_batch.year
        /\ (csv_file.kind = "beneficiary" /\ YearParts(csv_file.name) # {}) =>
              \E i \in YearParts(csv_file.name) :
                  bronze_batch.year = Some(ToInt(csv_file.name[i]))
        /\ csv_file.kind # "beneficiary" =>
              \E y \in YearModes(csv_file.rows) :
                  bronze_batch.year = Some(ToInt(y))

----------------------------------------------------------------------------
(* Properties of the conversion stage's schema                             *)

(* C21: whenever convert_file has written a batch, every column that       *)
(* column_types expects of the file's kind is a column of the batch (with  *)
(* null cells when the source file lacks it).                              *)
C21_ExpectedColumnsPresent ==
    bronze_batch.written =>
        column_types[csv_file.kind] \subseteq bronze_columns

(* C27: for a beneficiary file whose header has every column that          *)
(* create_dim_beneficiary renames, the batch convert_file writes has those *)
(* columns too, and create_dim_beneficiary run after it produces           *)
(* dim_beneficiary.                                                        *)
C27_BronzeFeedsDimBeneficiary ==
    (/\ csv_file.kind = "beneficiary"
     /\ bronze_batch.written
     /\ RenamedColumns \subseteq csv_columns)
        => /\ RenamedColumns \subseteq bronze_columns
           /\ pc # "beneficiary" => dim_beneficiary.present

----------------------------------------------------------------------------
(* Properties of the served view                                           *)

(* The patient_metrics rows create_patient_api_view wrote for a patient    *)
(* and a year                                                              *)
WrittenMetrics(b, y) ==
    IF y \in Years /\ patient_api_view[y].patient_metrics.exists
    THEN {r \in patient_api_view[y].patient_metrics.rows : r.bene_id = b}
    ELSE {}

ServesRow(body, r, y) ==
    /\ body.bene_id = r.bene_id
    /\ body.year = y
    /\ Some(body.total_allowed) = r.total_allowed
    /\ Some(body.total_paid) = r.total_paid
    /\ body.inpatient_stays = r.inpatient_stays
    /\ body.outpatient_visits = r.outpatient_visits
    /\ body.rx_fills = r.rx_fills
    /\ body.unique_providers = r.unique_providers

(* C22: a request for a year in 2008..2010 is answered with the metrics of *)
(* the written patient_metrics row of that patient and year when there is  *)
(* one, and with 404 when there is none.                                   *)
C22_LookupServesWrittenRow ==
    (serve_no # "none" /\ request.year \in MinYear..MaxYear) =>
        LET written == WrittenMetrics(request.bene_id, request.year) IN
        IF written = {} THEN response = NotFound
        ELSE /\ response.status = 200
             /\ \A body \in response.body :
                   \E r \in written : ServesRow(body, r, request.year)

(* The stored top-diagnosis rows of a patient and a year *)
StoredDiagnoses(b, y) ==
    IF y \in Years /\ patient_api_view[y].patient_diagnoses.exists
    THEN {r \in patient_api_view[y].patient_diagnoses.rows : r.bene_id = b}
    ELSE {}

(* C23: the served top_diagnoses list has at most K entries, each a stored *)
(* row of the patient-year, in order of nonincreasing payment; no omitted  *)
(* row has a larger payment than a served one; and the same request over   *)
(* the same stored data is answered with the same list.                    *)
C23_ServedTopDiagnoses ==
    (serve_no # "none" /\ response.status = 200) =>
        /\ \A body \in response.body :
              LET list == body.top_diagnoses
                  stored == StoredDiagnoses(request.bene_id, request.year)
              IN /\ Len(list) <= K
                 /\ \A i \in DOMAIN list : \E r \in stored : Diagnosis(r) = list[i]
                 /\ \A i, j \in DOMAIN list :
                       i < j => list[i].spend >= list[j].spend
                 /\ \A r \in stored :
                       (\A i \in DOMAIN list : Diagnosis(r) # list[i]) =>
                           \A i \in DOMAIN list : r.diagnosis_payment <= list[i].spend
        /\ serve_no = "later" => response = response_first

(* Properties of the payment totals                                        *)

ProgramPaidColumns == {"MEDREIMB_IP", "MEDREIMB_OP", "MEDREIMB_CAR"}

PatientPaidColumns == {"BENRES_IP", "BENRES_OP", "BENRES_CAR"}

RECURSIVE SumOfComponents(_, _)
SumOfComponents(r, cols) ==
    IF cols = {} THEN 0
    ELSE LET c == CHOOSE x \in cols : TRUE
         IN CellValue(r.amounts[c]) + SumOfComponents(r, cols \ {c})

SameTotals(a, b) ==
    /\ a.bene_id = b.bene_id
    /\ a.year = b.year
    /\ a.total_allowed = b.total_allowed
    /\ a.total_paid = b.total_paid

BeneficiaryRowSet == SeqRange(dim_beneficiary.rows)

(* C24: in dim_beneficiary total_allowed is the sum of the nine payment    *)
(* components and total_paid the sum of the program-paid and patient-paid  *)
(* ones; every member_year_metrics row and every patient_metrics row has   *)
(* the totals of a dim_beneficiary row of its patient and year, and so has *)
(* every response the server gives.                                        *)
C24_OneDefinitionOfTotals ==
    (bene_bronze.present /\ dim_beneficiary.present) =>
        /\ \A i \in DOMAIN dim_beneficiary.rows :
              LET d == dim_beneficiary.rows[i]
                  b == bene_bronze.rows[i]
              IN (\A c \in PaymentColumns : b.amounts[c] # Null) =>
                    /\ d.total_allowed = Some(SumOfComponents(b, PaymentColumns))
                    /\ d.total_paid =
                          Some(SumOfComponents(b, ProgramPaidColumns
                                                    \cup PatientPaidColumns))
        /\ \A m \in GoldRowSet(member_year_metrics) :
              \E d \in BeneficiaryRowSet : SameTotals(m, d)
        /\ \A y \in Years : \A v \in patient_api_view[y].patient_metrics.rows :
              \E d \in BeneficiaryRowSet : SameTotals(v, d)
        /\ (serve_no # "none" /\ response.status = 200) =>
              \A body \in response.body :
                 \E d \in BeneficiaryRowSet :
                    /\ d.bene_id = body.bene_id
                    /\ d.year = body.year
                    /\ d.total_allowed = Some(body.total_allowed)
                    /\ d.total_paid = Some(body.total_paid)

(* The server has answered a request for a patient-year whose nine         *)
(* components are all present and all different                            *)
C24_Witness ==
    /\ serve_no # "none"
    /\ request = [bene_id |-> "B1", year |-> 2008]
    /\ bene_bronze.present
    /\ bene_bronze.rows[1].amounts = BaseAmounts
    /\ response.status = 200
    /\ \A body \in response.body :
          body.total_allowed = 511 /\ body.total_paid = 219

----------------------------------------------------------------------------
(* Properties of the provider dimension                                    *)

(* The provider ids a fact table refers to *)
ReferencedProviders(tbl) ==
    {r.provider_id : r \in tbl.rows} \ {NullStr, "", "Unknown"}

DimProviderIds == {r.provider_id : r \in dim_provider.rows}

(* C25: when transform_all has completed, dim_provider has one row per     *)
(* provider id, and every provider id (not null, empty or "Unknown") of    *)
(* fact_claims and of fact_prescription is among its ids.                  *)
C25_DimProviderCoversFacts ==
    (pc = "done" /\ rx_outcome = "written") =>
        /\ \A a, b \in dim_provider.rows : a.provider_id = b.provider_id => a = b
        /\ ReferencedProviders(fact_claims) \cup ReferencedProviders(fact_prescription)
              \subseteq DimProviderIds

----------------------------------------------------------------------------
(* Properties of run_pipeline                                              *)

(* The stages called so far, in the order of the calls *)
StagesCalled == [i \in 1..Len(stage_log) |-> stage_log[i].stage]

(* The selected stages in the fixed order *)
SelectedInOrder == SelectSeq(StageOrder, LAMBDA name : Selected(name, steps))

(* C26: run_pipeline calls the selected stages one after the other in the  *)
(* order download, convert, transform, analytics, validate whatever the    *)
(* order of the steps list: the stages called so far are always the first  *)
(* of the selected stages in that order, each once; when run_pipeline      *)
(* returns every selected stage has been called, also after a stage that   *)
(* failed, and it returns True exactly when every stage called returned    *)
(* True.                                                                   *)
C26_StagesInFixedOrder ==
    /\ Len(StagesCalled) <= Len(SelectedInOrder)
    /\ StagesCalled = SubSeq(SelectedInOrder, 1, Len(StagesCalled))
    /\ stage = "returned" =>
          /\ StagesCalled = SelectedInOrder
          /\ pipeline_result = "True" <=>
                \A i \in 1..Len(stage_log) : stage_log[i].ok

C26_Witness ==
    /\ stage = "returned"
    /\ steps = <<"validate", "convert", "download">>
    /\ StagesCalled = <<"download", "convert", "validate">>
    /\ ~stage_log[1].ok
    /\ stage_log[3].ok
    /\ pipeline_result = "False"

----------------------------------------------------------------------------
(* Properties of the rows of member_year_metrics                           *)

(* How many rows of a frame carry the key (b, y) *)
KeyCount(rows, b, y) ==
    Cardinality({i \in 1..Len(rows) : rows[i].bene_id = b /\ rows[i].year = y})

(* The patients with a row in one of the silver tables *)
KnownPatients ==
    {dim_beneficiary.rows[i].bene_id : i \in 1..Len(dim_beneficiary.rows)}
       \cup {r.bene_id : r \in fact_claims.rows}
       \cup {r.bene_id : r \in fact_prescription.rows}

(* C28: once create_member_year_metrics has run over a dim_beneficiary     *)
(* table, member_year_metrics holds every (bene_id, year) key as often as  *)
(* dim_beneficiary does, whatever fact_claims and fact_prescription hold:  *)
(* no beneficiary row is dropped or repeated, and a patient-year with      *)
(* claims or prescriptions but no beneficiary row has no metrics row.      *)
C28_KeysOfBeneficiaryRows ==
    (pc # "metrics" /\ dim_beneficiary.present) =>
        \A b \in KnownPatients, y \in Years :
            KeyCount(member_year_metrics[y].rows, b, y)
               = KeyCount(dim_beneficiary.rows, b, y)

----------------------------------------------------------------------------
(* Properties of diagnosis_payment                                         *)

(* The claims of a patient-year that carry a code, each with its payment *)
ClaimsCarrying(diag, b, y, code) ==
    {[id |-> x.claim_id, cell |-> x.payment] :
        x \in {l \in diag : SameKey(l, b, y) /\ l.diagnosis_code = code}}

(* C30: diagnosis_payment of a written (bene_id, year, diagnosis_code) row *)
(* is the sum of the payment over the distinct claims of the patient-year  *)
(* that carry the code: a claim counts once for a code, also when the code *)
(* fills several of its diagnosis slots.                                   *)
C30_PaymentOncePerClaim ==
    outcome.top = "written" =>
        \A r \in TopRows :
            r.diagnosis_payment =
                SumCells(ClaimsCarrying(fact_claim_diagnoses.rows,
                                        r.bene_id, r.year, r.diagnosis_code))

----------------------------------------------------------------------------
(* Properties of a run of create_all_analytics over a used gold root       *)

(* The patient_metrics rows of a year as this run computes them from the   *)
(* silver tables it reads: none when create_member_year_metrics returns    *)
(* for want of dim_beneficiary.                                            *)
ComputedMetrics(y) ==
    IF dim_beneficiary.present
    THEN {MetricsSlim(r) :
            r \in {x \in SeqRange(MetricsFrame(dim_beneficiary.rows, fact_claims,
                                               fact_prescription)) : x.year = y}}
    ELSE {}

(* The patient_diagnoses rows of a year as this run computes them *)
ComputedDiagnoses(y) ==
    IF fact_claim_diagnoses.present
    THEN {r \in TopDiagnoses(fact_claim_diagnoses.rows) : r.year = y}
    ELSE {}

(* C29: the patient_api_view a run of create_all_analytics has written     *)
(* holds exactly the metrics and top-diagnoses rows that run computed from *)
(* the silver tables, whatever an earlier run left in the gold root; no    *)
(* row of an earlier run remains where this run computed none.             *)
C29_ViewOfThisRun ==
    (pc = "done" /\ outcome.api = "written") =>
        \A y \in Years :
            /\ patient_api_view[y].patient_metrics.rows = ComputedMetrics(y)
            /\ patient_api_view[y].patient_diagnoses.rows = ComputedDiagnoses(y)
====
